---------------------------- MODULE Spec2Model ----------------------------
(***************************************************************************)
(* A model of spellchk-rs: the dictionary, the suggestion engine, the      *)
(* tokenizers and the checker orchestrator.                                *)
(*                                                                         *)
(* Text.  A Rust `char` is modelled by its Unicode scalar value (a         *)
(* natural number) and a `String`/`&str` by the sequence of its chars.     *)
(* `str::len()` is the length of the UTF-8 encoding, so ByteLen below is   *)
(* computed from the encoded width of every char, while `chars().count()`  *)
(* is Len.  Byte-wise lexicographic order of UTF-8 strings coincides with  *)
(* lexicographic order of the scalar values, which is what StrLess uses.   *)
(***************************************************************************)
EXTENDS Integers, Sequences, FiniteSets, TLC

VARIABLES
    pc,               \* position of the running operation
    args,             \* the inputs the operation was called with
    ret,              \* the value the operation returned (NoValue before)
    dict_file,        \* the dictionary file on disk (NoValue: no such file)
    personal_dict_file, \* the file at config.personal_dictionary (NoValue: none)
    dictionary,       \* the loaded Dictionary (NoValue: none loaded)
    file,             \* the content of the file at file_path
    personal_words,   \* SpellChecker.personal_words
    ignore_patterns   \* SpellChecker.ignore_patterns

vars ==
    <<pc, args, ret, dict_file, personal_dict_file, dictionary, file, personal_words,
      ignore_patterns>>

\* The state of the checker, which the operations on texts alone leave alone.
checker_vars == <<file, personal_words, ignore_patterns>>

NoValue == [none |-> TRUE]

(***************************************************************************)
(* Characters                                                              *)
(***************************************************************************)

\* Scalar values of the characters used to write the concrete texts.
C == [ a |-> 97, b |-> 98, c |-> 99, d |-> 100, e |-> 101, f |-> 102,
       g |-> 103, h |-> 104, i |-> 105, j |-> 106, k |-> 107, l |-> 108,
       m |-> 109, n |-> 110, o |-> 111, p |-> 112, r |-> 114,
       s |-> 115, t |-> 116, u |-> 117, v |-> 118, w |-> 119, x |-> 120,
       y |-> 121, z |-> 122,
       A |-> 65, B |-> 66, C |-> 67, H |-> 72, T |-> 84,
       sp |-> 32, bang |-> 33, bq |-> 96, dq |-> 34, hash |-> 35, sq |-> 39,
       comma |-> 44, hy |-> 45, dot |-> 46, slash |-> 47, d0 |-> 48,
       d1 |-> 49, colon |-> 58, at |-> 64, bslash |-> 92, us |-> 95, nl |-> 10, cr |-> 13,
       eacute |-> 233, Eacute |-> 201 ]

\* Width of the UTF-8 encoding of a scalar value (char::len_utf8).
Utf8Len(ch) ==
    IF ch < 128 THEN 1 ELSE IF ch < 2048 THEN 2 ELSE IF ch < 65536 THEN 3 ELSE 4

\* char::is_uppercase / is_alphabetic / is_numeric, on Basic Latin and Latin-1.
is_uppercase(ch) == (ch >= 65 /\ ch <= 90) \/ (ch >= 192 /\ ch <= 222 /\ ch # 215)
is_lowercase(ch) == (ch >= 97 /\ ch <= 122) \/ (ch >= 223 /\ ch <= 255 /\ ch # 247)
is_alphabetic(ch) == is_uppercase(ch) \/ is_lowercase(ch)
is_numeric(ch) == ch >= 48 /\ ch <= 57

\* char::to_lowercase().next(): the simple lower-case mapping.
char_to_lowercase(ch) == IF is_uppercase(ch) THEN ch + 32 ELSE ch

(***************************************************************************)
(* Strings                                                                 *)
(***************************************************************************)

RECURSIVE ByteLen(_)
\* str::len(): the number of bytes of the UTF-8 encoding.
ByteLen(s) == IF s = <<>> THEN 0 ELSE Utf8Len(Head(s)) + ByteLen(Tail(s))

\* str::to_lowercase()
to_lowercase(s) == [n \in 1..Len(s) |-> char_to_lowercase(s[n])]

\* str::starts_with
StartsWith(s, p) == Len(p) <= Len(s) /\ SubSeq(s, 1, Len(p)) = p

RECURSIVE StrLess(_, _)
\* Ord for str / [u8]: lexicographic order.
StrLess(s, t) ==
    IF t = <<>> THEN FALSE
    ELSE IF s = <<>> THEN TRUE
    ELSE IF Head(s) # Head(t) THEN Head(s) < Head(t)
    ELSE StrLess(Tail(s), Tail(t))

Min(x, y) == IF x <= y THEN x ELSE y

Range(f) == {f[n] : n \in DOMAIN f}

\* All strings over an alphabet of at most n chars.
StringsUpTo(alphabet, n) == UNION {[1..k -> alphabet] : k \in 0..n}

RECURSIVE ConcatAll(_)
ConcatAll(lists) ==
    IF lists = <<>> THEN <<>> ELSE Head(lists) \o ConcatAll(Tail(lists))

(***************************************************************************)
(* checker/suggestions.rs: edit_distance                                   *)
(***************************************************************************)

RECURSIVE FillRow(_, _, _, _, _)
\* The inner loop `for j in 0..b_len` that fills row i of the matrix, i and j
\* counted from 1 (the code's i + 1 and j + 1).
FillRow(matrix, a_chars, b_chars, i, j) ==
    IF j > Len(b_chars) THEN matrix
    ELSE LET cost == IF a_chars[i] = b_chars[j] THEN 0 ELSE 1
             cell == Min(Min(matrix[i - 1][j] + 1,      \* deletion
                             matrix[i][j - 1] + 1),     \* insertion
                         matrix[i - 1][j - 1] + cost)   \* substitution
         IN FillRow([matrix EXCEPT ![i][j] = cell], a_chars, b_chars, i, j + 1)

RECURSIVE FillMatrix(_, _, _, _)
\* The outer loop `for i in 0..a_len`, from row i on.
FillMatrix(matrix, a_chars, b_chars, i) ==
    IF i > Len(a_chars) THEN matrix
    ELSE FillMatrix(FillRow(matrix, a_chars, b_chars, i, 1), a_chars, b_chars, i + 1)

\* The matrix computation of edit_distance over two sequences of symbols.
LevenshteinMatrix(a_chars, b_chars) ==
    LET a_len == Len(a_chars)
        b_len == Len(b_chars)
    IN IF a_len = 0 THEN b_len
       ELSE IF b_len = 0 THEN a_len
       ELSE LET matrix == [i \in 0..a_len |-> [j \in 0..b_len |->
                              IF j = 0 THEN i ELSE IF i = 0 THEN j ELSE 0]]
            IN FillMatrix(matrix, a_chars, b_chars, 1)[a_len][b_len]

\* str::as_bytes(): the UTF-8 encoding (one or two bytes per char here).
RECURSIVE Utf8Bytes(_)
Utf8Bytes(s) ==
    IF s = <<>> THEN <<>>
    ELSE (IF Head(s) < 128 THEN <<Head(s)>>
          ELSE <<192 + (Head(s) \div 64), 128 + (Head(s) % 64)>>)
         \o Utf8Bytes(Tail(s))

\* Mutant: the distance taken over bytes instead of chars.
edit_distance_bytes(a, b) == LevenshteinMatrix(Utf8Bytes(a), Utf8Bytes(b))

\* edit_distance(a, b): a.chars() and b.chars() are compared.
edit_distance(a, b) == LevenshteinMatrix(a, b)

(***************************************************************************)
(* checker/dictionary.rs: Dictionary over an fst::Set                      *)
(*                                                                         *)
(* An fst::Set is a deterministic acyclic automaton over the bytes of its  *)
(* keys.  It is modelled by its states, named by the key prefix that leads *)
(* to them (`nodes`), and its final states (`final`).  The file that       *)
(* SetBuilder writes is the serialized automaton, and Set::new reads it    *)
(* back.  Keys are valid UTF-8 and so are the prefixes asked for, hence    *)
(* the automaton is walked char by char here.                              *)
(***************************************************************************)

EmptySet == [nodes |-> {<<>>}, final |-> {}]

Prefixes(key) == {SubSeq(key, 1, n) : n \in 0..Len(key)}

RECURSIVE BuilderInsertAll(_, _, _)
\* SetBuilder::insert for every word of `words` in turn: a key smaller than
\* the one before it is refused (the `?` then leaves build_from_words), an
\* equal one changes nothing.  `last` holds the previous key, if any.
BuilderInsertAll(set, last, words) ==
    IF words = <<>> THEN [ok |-> TRUE, set |-> set]
    ELSE LET key == Head(words) IN
         IF last # <<>> /\ StrLess(key, last[1])
         THEN [ok |-> FALSE, set |-> set]
         ELSE BuilderInsertAll([nodes |-> set.nodes \cup Prefixes(key),
                                final |-> set.final \cup {key}],
                               <<key>>, Tail(words))

RECURSIVE InsertSorted(_, _)
InsertSorted(sorted, w) ==
    IF sorted = <<>> THEN <<w>>
    ELSE IF StrLess(w, Head(sorted)) THEN <<w>> \o sorted
    ELSE <<Head(sorted)>> \o InsertSorted(Tail(sorted), w)

RECURSIVE Sort(_)
\* Vec<String>::sort(): ascending in the order of str.
Sort(words) ==
    IF words = <<>> THEN <<>>
    ELSE InsertSorted(Sort(SubSeq(words, 1, Len(words) - 1)), words[Len(words)])

RECURSIVE Dedup(_)
\* Vec::dedup(): of every run of equal consecutive elements the first is kept.
Dedup(words) ==
    IF Len(words) <= 1 THEN words
    ELSE IF words[1] = words[2] THEN Dedup(Tail(words))
    ELSE <<words[1]>> \o Dedup(Tail(words))

\* Mutant: the word list is written as given, neither sorted nor deduplicated.
build_from_words_unsorted(words) == BuilderInsertAll(EmptySet, <<>>, words)

\* Dictionary::build_from_words: [ok, set], `set` being what the file holds
\* when ok.
build_from_words(words) ==
    LET sorted_words == Dedup(Sort(words))
    IN BuilderInsertAll(EmptySet, <<>>, sorted_words)

\* Dictionary::contains: the automaton accepts the word.
contains(dict, word) == Prefixes(word) \subseteq dict.nodes /\ word \in dict.final

RECURSIVE StreamChildren(_, _, _)
RECURSIVE StreamFrom(_, _)
\* The keys below `node`, in the order the stream yields them: the node's own
\* key first, then the subtrees by ascending transition.
StreamFrom(dict, node) ==
    (IF node \in dict.final THEN <<node>> ELSE <<>>)
    \o StreamChildren(dict, node,
                      {k[Len(k)] : k \in {n \in dict.nodes :
                                            Len(n) = Len(node) + 1 /\ StartsWith(n, node)}})

StreamChildren(dict, node, transitions) ==
    IF transitions = {} THEN <<>>
    ELSE LET ch == CHOOSE x \in transitions : \A y \in transitions : x <= y
         IN StreamFrom(dict, Append(node, ch))
            \o StreamChildren(dict, node, transitions \ {ch})

\* Mutant: the key that equals the prefix itself is not reported.
words_with_prefix_proper(dict, prefix) ==
    IF prefix \in dict.nodes
    THEN SelectSeq(StreamFrom(dict, prefix), LAMBDA w : w # prefix)
    ELSE <<>>

\* Dictionary::words_with_prefix: the stream of the keys the automaton
\* Str::new(prefix).starts_with() accepts.
words_with_prefix(dict, prefix) ==
    IF prefix \in dict.nodes THEN StreamFrom(dict, prefix) ELSE <<>>

\* Dictionary::all_words: the stream of all keys.
all_words(dict) == StreamFrom(dict, <<>>)

(***************************************************************************)
(* checker/suggestions.rs: generate_transformations and generate          *)
(***************************************************************************)

\* str::is_char_boundary(n), and &s[..n] where n is one.
IsCharBoundary(s, n) == \E k \in 0..Len(s) : ByteLen(SubSeq(s, 1, k)) = n
SliceTo(s, n) == SubSeq(s, 1, CHOOSE k \in 0..Len(s) : ByteLen(SubSeq(s, 1, k)) = n)

\* Vec::truncate(n) and Iterator::take(n)
Truncate(list, n) == IF Len(list) > n THEN SubSeq(list, 1, n) ELSE list

Member(list, x) == \E n \in 1..Len(list) : list[n] = x

RemoveAt(chars, n) == SubSeq(chars, 1, n - 1) \o SubSeq(chars, n + 1, Len(chars))
SwapAt(chars, n) == [chars EXCEPT ![n] = chars[n + 1], ![n + 1] = chars[n]]

\* The table common_replacements, as (from, to) pairs in its order.
common_replacements ==
    << <<C.a, C.e>>, <<C.e, C.i>>, <<C.i, C.o>>, <<C.o, C.u>>, <<C.b, C.v>>,
       <<C.c, C.k>>, <<C.f, C.v>>, <<C.g, C.j>>, <<C.m, C.n>>,
       <<C.s, C.z>>, <<C.t, C.d>> >>

\* The inner loop over the table for the char at position i.
ReplacementsAt(chars, i) ==
    LET IsFrom(pair) == pair[1] = chars[i]
        hits == SelectSeq(common_replacements, IsFrom)
    IN [k \in 1..Len(hits) |-> [chars EXCEPT ![i] = hits[k][2]]]

\* The nested loops over the chars of the word and over the table.
Replacements(chars) ==
    ConcatAll([i \in 1..Len(chars) |-> ReplacementsAt(chars, i)])

generate_transformations(word) ==
    LET chars == word
        deletions == [i \in 1..Len(chars) |-> RemoveAt(chars, i)]
        transpositions ==
            IF Len(chars) = 0 THEN <<>>
            ELSE [i \in 1..(Len(chars) - 1) |-> SwapAt(chars, i)]
    IN deletions \o transpositions \o Replacements(chars)

RECURSIVE InsertByDistance(_, _, _)
InsertByDistance(word, sorted, w) ==
    IF sorted = <<>> THEN <<w>>
    ELSE IF edit_distance(word, w) < edit_distance(word, Head(sorted))
    THEN <<w>> \o sorted
    ELSE <<Head(sorted)>> \o InsertByDistance(word, Tail(sorted), w)

RECURSIVE SortByDistance(_, _)
\* sort_by_key(|w| edit_distance(word, w)): a stable sort, equal keys keep
\* their order.
SortByDistance(word, list) ==
    IF list = <<>> THEN <<>>
    ELSE InsertByDistance(word, SortByDistance(word, SubSeq(list, 1, Len(list) - 1)),
                          list[Len(list)])

\* Stage 1: what the 3-byte prefix contributes.
Stage1(word, dict, max_suggestions) ==
    LET prefix == SliceTo(word, 3)
        prefix_matches ==
            Truncate(SortByDistance(word, words_with_prefix(dict, prefix)), max_suggestions)
    IN SelectSeq(prefix_matches, LAMBDA suggestion : edit_distance(word, suggestion) <= 2)

RECURSIVE Stage2(_, _, _, _)
\* Stage 2: the loop over the transformations; `returned` when the loop left
\* the function.
Stage2(suggestions, transformations, dict, max_suggestions) ==
    IF transformations = <<>> THEN [suggestions |-> suggestions, returned |-> FALSE]
    ELSE LET transform == Head(transformations) IN
         IF contains(dict, transform) /\ ~Member(suggestions, transform)
         THEN LET pushed == Append(suggestions, transform) IN
              IF Len(pushed) >= max_suggestions
              THEN [suggestions |-> Truncate(pushed, max_suggestions), returned |-> TRUE]
              ELSE Stage2(pushed, Tail(transformations), dict, max_suggestions)
         ELSE Stage2(suggestions, Tail(transformations), dict, max_suggestions)

RECURSIVE Stage3_repeats(_, _, _, _)
\* Mutant: stage 3 without the test `!suggestions.contains(&candidate)`.
Stage3_repeats(suggestions, prefix_matches, word, max_suggestions) ==
    IF prefix_matches = <<>> THEN [suggestions |-> suggestions, returned |-> FALSE]
    ELSE IF edit_distance(word, Head(prefix_matches)) <= 3
    THEN IF Len(suggestions) + 1 >= max_suggestions
         THEN [suggestions |-> Truncate(Append(suggestions, Head(prefix_matches)),
                                        max_suggestions),
               returned |-> TRUE]
         ELSE Stage3_repeats(Append(suggestions, Head(prefix_matches)),
                             Tail(prefix_matches), word, max_suggestions)
    ELSE Stage3_repeats(suggestions, Tail(prefix_matches), word, max_suggestions)

RECURSIVE Stage3(_, _, _, _)
\* Stage 3: the loop over the words that share the 2-byte prefix.
Stage3(suggestions, prefix_matches, word, max_suggestions) ==
    IF prefix_matches = <<>> THEN [suggestions |-> suggestions, returned |-> FALSE]
    ELSE LET candidate == Head(prefix_matches)
             distance == edit_distance(word, candidate)
         IN IF distance <= 3 /\ ~Member(suggestions, candidate)
            THEN LET pushed == Append(suggestions, candidate) IN
                 IF Len(pushed) >= max_suggestions
                 THEN [suggestions |-> Truncate(pushed, max_suggestions), returned |-> TRUE]
                 ELSE Stage3(pushed, Tail(prefix_matches), word, max_suggestions)
            ELSE Stage3(suggestions, Tail(prefix_matches), word, max_suggestions)

\* .take(100) in stage 4
ScanCap == 100

Abs(x) == IF x < 0 THEN 0 - x ELSE x

RECURSIVE Stage4Push(_, _, _)
\* Stage 4: the loop that pushes the sorted candidates until the list is full.
Stage4Push(suggestions, candidates, max_suggestions) ==
    IF candidates = <<>> THEN suggestions
    ELSE LET pushed == Append(suggestions, Head(candidates)) IN
         IF Len(pushed) >= max_suggestions THEN pushed
         ELSE Stage4Push(pushed, Tail(candidates), max_suggestions)

\* Stage 4: the bounded scan of all_words().
Stage4(suggestions, word, dict, max_suggestions) ==
    LET by_length == SelectSeq(all_words(dict),
                        LAMBDA w : Abs(ByteLen(w) - ByteLen(word)) <= 1)
        near == SelectSeq(Truncate(by_length, ScanCap),
                        LAMBDA w : edit_distance(word, w) <= 2 /\ ~Member(suggestions, w))
    IN Stage4Push(suggestions, SortByDistance(word, near), max_suggestions)

Returned(list) == [panicked |-> FALSE, suggestions |-> list]
Panicked == [panicked |-> TRUE, suggestions |-> <<>>]

\* generate, from the test that follows stage 3 on; s3 is what stage 3 left.
GenerateFrom4(s3, word, dict, max_suggestions) ==
    IF s3.returned THEN Returned(s3.suggestions)
    ELSE IF Len(s3.suggestions) < max_suggestions /\ ByteLen(word) <= 3
    THEN Returned(Truncate(Stage4(s3.suggestions, word, dict, max_suggestions),
                           max_suggestions))
    ELSE Returned(Truncate(s3.suggestions, max_suggestions))

\* generate, from stage 3 on.
GenerateFrom3(suggestions, word, dict, max_suggestions) ==
    IF Len(suggestions) < max_suggestions /\ ByteLen(word) >= 2 /\ ~IsCharBoundary(word, 2)
    THEN Panicked
    ELSE GenerateFrom4(IF Len(suggestions) < max_suggestions /\ ByteLen(word) >= 2
                       THEN Stage3(suggestions,
                                   SortByDistance(word, words_with_prefix(dict, SliceTo(word, 2))),
                                   word, max_suggestions)
                       ELSE [suggestions |-> suggestions, returned |-> FALSE],
                       word, dict, max_suggestions)

\* generate, from the test that follows stage 2 on; s2 is what stage 2 left.
GenerateAfter2(s2, word, dict, max_suggestions) ==
    IF s2.returned THEN Returned(s2.suggestions)
    ELSE GenerateFrom3(s2.suggestions, word, dict, max_suggestions)

\* generate, from the test that follows stage 1 on; s1 is what stage 1 left.
GenerateFrom2(s1, word, dict, max_suggestions) ==
    IF Len(s1) >= max_suggestions THEN Returned(Truncate(s1, max_suggestions))
    ELSE GenerateAfter2(Stage2(s1, generate_transformations(word), dict, max_suggestions),
                        word, dict, max_suggestions)

\* The body of generate: the list returned, or the panic of a `&word[..n]`
\* that does not end on a char boundary.
GenerateBody(word, dict, max_suggestions) ==
    IF ByteLen(word) >= 3 /\ ~IsCharBoundary(word, 3) THEN Panicked
    ELSE GenerateFrom2(IF ByteLen(word) >= 3 THEN Stage1(word, dict, max_suggestions)
                       ELSE <<>>,
                       word, dict, max_suggestions)

\* Mutant: every comparison with max_suggestions is off by one.
generate_one_more(word, dict, max_suggestions) ==
    GenerateBody(word, dict, max_suggestions + 1)

\* Mutant: the whole list is sorted by distance again before it is returned.
generate_resorted(word, dict, max_suggestions) ==
    [GenerateBody(word, dict, max_suggestions) EXCEPT
        !.suggestions = SortByDistance(word, @)]

\* generate(word, dictionary, max_suggestions)
generate(word, dict, max_suggestions) == GenerateBody(word, dict, max_suggestions)

\* The Dictionary that holds exactly the words of a set.
DictionaryOf(words) ==
    [nodes |-> {<<>>} \cup UNION {Prefixes(w) : w \in words}, final |-> words]

(***************************************************************************)
(* checker/tokenizer.rs: split_compound_word                               *)
(***************************************************************************)

IsSeparator(ch) == ch = C.us \/ ch = C.hy

RECURSIVE SplitLoop(_, _, _)
\* The `for ch in word.chars()` loop: <<result, current>> after the chars of
\* `rest` have been consumed.
SplitLoop(rest, result, current) ==
    IF rest = <<>> THEN <<result, current>>
    ELSE LET ch == Head(rest) IN
         IF IsSeparator(ch)
         THEN IF current # <<>>
              THEN SplitLoop(Tail(rest), Append(result, current), <<>>)
              ELSE SplitLoop(Tail(rest), result, current)
         ELSE IF is_uppercase(ch) /\ current # <<>>
         THEN SplitLoop(Tail(rest), Append(result, current), <<char_to_lowercase(ch)>>)
         ELSE SplitLoop(Tail(rest), result, Append(current, ch))

split_compound_word(word) ==
    LET after == SplitLoop(word, <<>>, <<>>)
        result == IF after[2] # <<>> THEN Append(after[1], after[2]) ELSE after[1]
    IN IF result = <<>> THEN <<word>> ELSE result

(***************************************************************************)
(* parser/plaintext.rs                                                     *)
(***************************************************************************)

RECURSIVE SplitOn(_, _, _)
\* The pieces of `text` between occurrences of the char `sep`; `piece` is the
\* one being read.
SplitOn(text, sep, piece) ==
    IF text = <<>> THEN <<piece>>
    ELSE IF Head(text) = sep THEN <<piece>> \o SplitOn(Tail(text), sep, <<>>)
    ELSE SplitOn(Tail(text), sep, Append(piece, Head(text)))

\* str::lines(): the text is cut at every "\n", a "\r" just before it goes
\* with it, and an empty piece after the last "\n" is no line.
Lines(content) ==
    LET pieces == SplitOn(content, C.nl, <<>>)
        kept == IF pieces[Len(pieces)] = <<>>
                THEN SubSeq(pieces, 1, Len(pieces) - 1) ELSE pieces
    IN [n \in 1..Len(kept) |->
            IF n < Len(pieces) /\ kept[n] # <<>> /\ kept[n][Len(kept[n])] = C.cr
            THEN SubSeq(kept[n], 1, Len(kept[n]) - 1)
            ELSE kept[n]]

\* plaintext.rs has its own copy of split_compound_word, the same text as
\* the one of checker/tokenizer.rs.
plaintext_split_compound_word(word) ==
    LET after == SplitLoop(word, <<>>, <<>>)
        result == IF after[2] # <<>> THEN Append(after[1], after[2]) ELSE after[1]
    IN IF result = <<>> THEN <<word>> ELSE result

\* The `for split_word in split_words` loop: the (word, word_start) pairs a
\* finished run contributes.
PlainKeepSubWords(current_word, word_start) ==
    LET split_words == plaintext_split_compound_word(current_word)
        kept == SelectSeq(split_words, LAMBDA split_word : ByteLen(split_word) > 1)
    IN [n \in 1..Len(kept) |-> <<kept[n], word_start>>]

IsPlainWordChar(ch) == is_alphabetic(ch) \/ ch = C.sq \/ ch = C.hy

RECURSIVE PlainExtractLoop(_, _, _, _, _)
\* The loop over the graphemes of the text.  No char of the texts considered
\* is a combining mark, so every grapheme is one char.
PlainExtractLoop(rest, words, current_word, word_start, current_pos) ==
    IF rest = <<>>
    THEN IF current_word # <<>>
         THEN words \o PlainKeepSubWords(current_word, word_start)
         ELSE words
    ELSE LET ch == Head(rest)
             next_pos == current_pos + Utf8Len(ch)
         IN IF IsPlainWordChar(ch)
            THEN PlainExtractLoop(Tail(rest), words, Append(current_word, ch),
                                  IF current_word = <<>> THEN current_pos ELSE word_start,
                                  next_pos)
            ELSE IF current_word # <<>>
            THEN PlainExtractLoop(Tail(rest),
                                  words \o PlainKeepSubWords(current_word, word_start),
                                  <<>>, word_start, next_pos)
            ELSE PlainExtractLoop(Tail(rest), words, current_word, word_start, next_pos)

\* plaintext::extract_words: the (word, byte offset) pairs of a line.
plaintext_extract_words(text) == PlainExtractLoop(text, <<>>, <<>>, 0, 0)

\* The 20 bytes of context get_context shows on either side of a word.
ContextRadius == 20

Dots == <<C.dot, C.dot, C.dot>>

\* &line[start..end]: the chars between two byte offsets.
SliceBetween(s, start, end) ==
    LET from == CHOOSE k \in 0..Len(s) : ByteLen(SubSeq(s, 1, k)) = start
        to == CHOOSE k \in 0..Len(s) : ByteLen(SubSeq(s, 1, k)) = end
    IN SubSeq(s, from + 1, to)

\* plaintext::get_context; it panics when start or end is no char boundary.
plaintext_get_context(line, offset, word_len) ==
    LET start == IF offset > ContextRadius THEN offset - ContextRadius ELSE 0
        end == Min(offset + word_len + ContextRadius, ByteLen(line))
    IN IF ~IsCharBoundary(line, start) \/ ~IsCharBoundary(line, end)
       THEN [panicked |-> TRUE, text |-> <<>>]
       ELSE LET context == SliceBetween(line, start, end)
            IN [panicked |-> FALSE,
                text |-> IF start > 0 /\ end < ByteLen(line) THEN Dots \o context \o Dots
                         ELSE IF start > 0 THEN Dots \o context
                         ELSE IF end < ByteLen(line) THEN context \o Dots
                         ELSE context]

\* The spans of one line of plain text.
PlainLineSpans(line, line_num) ==
    LET words == plaintext_extract_words(line)
    IN [n \in 1..Len(words) |->
            [text |-> words[n][1],
             line |-> line_num,
             column |-> words[n][2] + 1,
             original_text |->
                 plaintext_get_context(line, words[n][2], ByteLen(words[n][1]))]]

\* What a parser returns: its spans, or the panic of one of its slices.
Parsed(spans) ==
    IF \E n \in 1..Len(spans) : spans[n].original_text.panicked
    THEN [panicked |-> TRUE, spans |-> <<>>]
    ELSE [panicked |-> FALSE,
          spans |-> [n \in 1..Len(spans) |->
                        [spans[n] EXCEPT !.original_text = spans[n].original_text.text]]]

\* plaintext::parse
plaintext_parse(content) ==
    LET lines == Lines(content)
    IN Parsed(ConcatAll([n \in 1..Len(lines) |-> PlainLineSpans(lines[n], n)]))

(***************************************************************************)
(* parser/markdown.rs                                                      *)
(***************************************************************************)

RECURSIVE MarkdownExtractLoop(_, _, _, _, _, _)
\* The loop of markdown::extract_words over text.char_indices().
MarkdownExtractLoop(rest, words, current_word, word_start, in_word, i) ==
    IF rest = <<>>
    THEN IF in_word /\ current_word # <<>>
         THEN Append(words, <<current_word, word_start>>)
         ELSE words
    ELSE IF IsPlainWordChar(Head(rest))
    THEN MarkdownExtractLoop(Tail(rest), words, Append(current_word, Head(rest)),
                             IF in_word THEN word_start ELSE i, TRUE,
                             i + Utf8Len(Head(rest)))
    ELSE IF in_word /\ current_word # <<>>
    THEN MarkdownExtractLoop(Tail(rest), Append(words, <<current_word, word_start>>),
                             <<>>, word_start, FALSE, i + Utf8Len(Head(rest)))
    ELSE MarkdownExtractLoop(Tail(rest), words, current_word, word_start, in_word,
                             i + Utf8Len(Head(rest)))

\* markdown::extract_words: the (word, byte offset) pairs of a text node.
markdown_extract_words(text) == MarkdownExtractLoop(text, <<>>, <<>>, 0, FALSE, 0)

\* The slice and the dots of markdown::get_context.
MarkdownContext(text, start, end) ==
    IF ~IsCharBoundary(text, start) \/ ~IsCharBoundary(text, end)
    THEN [panicked |-> TRUE, text |-> <<>>]
    ELSE [panicked |-> FALSE,
          text |-> IF start > 0 THEN Dots \o SliceBetween(text, start, end)
                   ELSE IF end < ByteLen(text) THEN SliceBetween(text, start, end) \o Dots
                   ELSE SliceBetween(text, start, end)]

\* markdown::get_context; it panics when start or end is no char boundary.
markdown_get_context(text, offset, word_len) ==
    MarkdownContext(text,
                    IF offset > ContextRadius THEN offset - ContextRadius ELSE 0,
                    Min(offset + word_len + ContextRadius, ByteLen(text)))

\* The spans pushed for one text node.
MarkdownTextSpans(text, current_line, current_column) ==
    LET words == markdown_extract_words(text)
    IN [n \in 1..Len(words) |->
            [text |-> words[n][1],
             line |-> current_line,
             column |-> current_column + words[n][2],
             start |-> 0,
             end |-> 0,
             original_text |->
                 markdown_get_context(text, words[n][2], ByteLen(words[n][1]))]]

\* text.matches("\n").count()
CountNewlines(text) == Cardinality({n \in 1..Len(text) : text[n] = C.nl})

\* The column after a text node: text.len() - last_newline when the text has
\* a newline, current_column + text.len() otherwise.
ColumnAfter(text, current_column) ==
    LET newlines == {n \in 1..Len(text) : text[n] = C.nl}
    IN IF newlines = {} THEN current_column + ByteLen(text)
       ELSE ByteLen(SubSeq(text, CHOOSE n \in newlines : \A m \in newlines : m <= n,
                           Len(text)))

\* The kinds of pulldown_cmark events markdown::parse tells apart; every
\* other event is "Other".
StartCodeBlock == [kind |-> "Start(CodeBlock)"]
EndCodeBlock == [kind |-> "End(CodeBlock)"]
Code(text) == [kind |-> "Code", text |-> text]
Text(text) == [kind |-> "Text", text |-> text]
OtherEvent == [kind |-> "Other"]
SoftBreak == [kind |-> "SoftBreak"]

RECURSIVE MarkdownLoop(_, _, _, _, _, _)
\* The loop `for event in parser`.  in_inline_code is set by a Code event
\* and reset at the end of the same iteration.
MarkdownLoop(events, spans, in_code_block, in_inline_code, current_line, current_column) ==
    IF events = <<>> THEN spans
    ELSE IF Head(events).kind = "Start(CodeBlock)"
    THEN MarkdownLoop(Tail(events), spans, TRUE, FALSE, current_line, current_column)
    ELSE IF Head(events).kind = "End(CodeBlock)"
    THEN MarkdownLoop(Tail(events), spans, FALSE, FALSE, current_line, current_column)
    ELSE IF Head(events).kind = "Code"
    THEN MarkdownLoop(Tail(events), spans, in_code_block, FALSE, current_line,
                      current_column)
    ELSE IF Head(events).kind = "Text" /\ ~in_code_block /\ ~in_inline_code
    THEN MarkdownLoop(Tail(events),
                      spans \o MarkdownTextSpans(Head(events).text, current_line,
                                                 current_column),
                      in_code_block, FALSE,
                      current_line + CountNewlines(Head(events).text),
                      ColumnAfter(Head(events).text, current_column))
    ELSE MarkdownLoop(Tail(events), spans, in_code_block, FALSE, current_line,
                      current_column)

\* markdown::parse, from the events Parser::new(content) yields
markdown_parse(events) == Parsed(MarkdownLoop(events, <<>>, FALSE, FALSE, 1, 1))

(***************************************************************************)
(* parser/source_code.rs                                                   *)
(***************************************************************************)

RECURSIVE SourceExtractLoop(_, _, _, _, _, _)
\* The loop of source_code::extract_words over text.char_indices(); i is the
\* byte index of Head(rest).
SourceExtractLoop(rest, i, words, current_word, word_start, in_word) ==
    IF rest = <<>>
    THEN IF in_word /\ current_word # <<>> /\ ByteLen(current_word) > 1
         THEN Append(words, <<current_word, word_start>>)
         ELSE words
    ELSE LET ch == Head(rest)
             next == i + Utf8Len(ch)
         IN IF is_alphabetic(ch)
            THEN SourceExtractLoop(Tail(rest), next, words, Append(current_word, ch),
                                   IF in_word THEN word_start ELSE i, TRUE)
            ELSE IF in_word /\ current_word # <<>> /\ ByteLen(current_word) > 1
            THEN SourceExtractLoop(Tail(rest), next,
                                   Append(words, <<current_word, word_start>>),
                                   <<>>, word_start, FALSE)
            ELSE IF in_word
            THEN SourceExtractLoop(Tail(rest), next, words, <<>>, word_start, FALSE)
            ELSE SourceExtractLoop(Tail(rest), next, words, current_word, word_start, in_word)

\* source_code::extract_words: the (word, byte offset) pairs of a text.
source_extract_words(text) == SourceExtractLoop(text, 0, <<>>, <<>>, 0, FALSE)

\* The positions n at which line[n..] starts with "//".
SlashSlashAt(line) ==
    {n \in 1..(Len(line) - 1) : line[n] = C.slash /\ line[n + 1] = C.slash}

Least(set) == CHOOSE x \in set : \A y \in set : x <= y

\* The body of the `if let Some(idx) = line.find("//")` block: the spans of
\* the comment whose "//" is at the chars `at` and `at + 1` of the line.
CommentSpansAt(line, at, line_num, byte_offset) ==
    LET idx == ByteLen(SubSeq(line, 1, at - 1))
        comment == SubSeq(line, at + 2, Len(line))
        words == source_extract_words(comment)
        comment_start == byte_offset + idx + 2
    IN [n \in 1..Len(words) |->
           [text |-> words[n][1],
            line |-> line_num,
            column |-> idx + 2 + words[n][2],
            start |-> comment_start + words[n][2],
            end |-> comment_start + words[n][2] + ByteLen(words[n][1]),
            original_text |-> comment]]

\* The `if let Some(idx) = line.find("//")` block: the spans of the comment.
CStyleCommentSpans(line, line_num, byte_offset) ==
    IF SlashSlashAt(line) = {} THEN <<>>
    ELSE CommentSpansAt(line, Least(SlashSlashAt(line)), line_num, byte_offset)

IsQuote(ch) == ch = C.dq \/ ch = C.sq

RECURSIVE ScanQuoted(_, _, _, _, _)
\* The inner `for (_i, c) in chars.by_ref()` loop, reading line[pos] next:
\* the content gathered, the position after the loop, and whether the loop
\* ended at the closing quote rather than at the end of the line.
ScanQuoted(line, pos, quote, content, escaped) ==
    IF pos > Len(line) THEN [content |-> content, next |-> pos, closed |-> FALSE]
    ELSE LET c == line[pos] IN
         IF escaped THEN ScanQuoted(line, pos + 1, quote, Append(content, c), FALSE)
         ELSE IF c = C.bslash THEN ScanQuoted(line, pos + 1, quote, content, TRUE)
         ELSE IF c = quote THEN [content |-> content, next |-> pos + 1, closed |-> TRUE]
         ELSE ScanQuoted(line, pos + 1, quote, Append(content, c), FALSE)

RECURSIVE CStyleStringSpans(_, _, _, _)
\* The `while let Some((start_idx, ch)) = chars.next()` loop, from line[pos].
CStyleStringSpans(line, pos, line_num, byte_offset) ==
    IF pos > Len(line) THEN <<>>
    ELSE IF ~IsQuote(line[pos]) THEN CStyleStringSpans(line, pos + 1, line_num, byte_offset)
    ELSE LET start_idx == ByteLen(SubSeq(line, 1, pos - 1))
             scanned == ScanQuoted(line, pos + 1, line[pos], <<>>, FALSE)
             words == source_extract_words(scanned.content)
         IN [n \in 1..Len(words) |->
                [text |-> words[n][1],
                 line |-> line_num,
                 column |-> start_idx + 1,
                 start |-> byte_offset + start_idx + 1,
                 end |-> byte_offset + start_idx + 1 + ByteLen(words[n][1]),
                 original_text |-> scanned.content]]
            \o CStyleStringSpans(line, scanned.next, line_num, byte_offset)

RECURSIVE CStyleLines(_, _, _)
\* The loop over content.lines(), from line number line_num on.
CStyleLines(lines, line_num, byte_offset) ==
    IF line_num > Len(lines) THEN <<>>
    ELSE LET line == lines[line_num] IN
         CStyleCommentSpans(line, line_num, byte_offset)
         \o CStyleStringSpans(line, 1, line_num, byte_offset)
         \o CStyleLines(lines, line_num + 1, byte_offset + ByteLen(line) + 1)

\* source_code::parse_c_style
parse_c_style(content) ==
    [panicked |-> FALSE, spans |-> CStyleLines(Lines(content), 1, 0)]

\* The position of the quote that closes the literal opened just before
\* `pos`, 0 when the line ends first.
RECURSIVE ClosingQuote(_, _, _, _)
ClosingQuote(line, pos, quote, escaped) ==
    IF pos > Len(line) THEN 0
    ELSE IF escaped THEN ClosingQuote(line, pos + 1, quote, FALSE)
    ELSE IF line[pos] = C.bslash THEN ClosingQuote(line, pos + 1, quote, TRUE)
    ELSE IF line[pos] = quote THEN pos
    ELSE ClosingQuote(line, pos + 1, quote, FALSE)

\* The `if let Some(idx) = line.find('#')` block of parse_python_style: the
\* spans of the comment, when the quotes before the first "#" are even in
\* number.
PythonCommentSpans(line, line_num, byte_offset) ==
    IF \A n \in 1..Len(line) : line[n] # C.hash THEN <<>>
    ELSE LET at == Least({n \in 1..Len(line) : line[n] = C.hash})
             idx == ByteLen(SubSeq(line, 1, at - 1))
             quote_count == Cardinality({n \in 1..(at - 1) : IsQuote(line[n])})
             comment == SubSeq(line, at + 1, Len(line))
             words == source_extract_words(comment)
             comment_start == byte_offset + idx + 1
         IN IF quote_count % 2 # 0 THEN <<>>
            ELSE [n \in 1..Len(words) |->
                     [text |-> words[n][1],
                      line |-> line_num,
                      column |-> idx + 1 + words[n][2],
                      start |-> comment_start + words[n][2],
                      end |-> comment_start + words[n][2] + ByteLen(words[n][1]),
                      original_text |-> comment]]

RECURSIVE PythonStringSpans(_, _, _, _)
\* The loop over STRING_LITERAL.captures_iter(line), searching from line[pos]:
\* a match is a quote up to the next quote of its kind that no backslash
\* escapes, and the search goes on after the match.
PythonStringSpans(line, pos, line_num, byte_offset) ==
    IF pos > Len(line) THEN <<>>
    ELSE IF ~IsQuote(line[pos]) \/ ClosingQuote(line, pos + 1, line[pos], FALSE) = 0
    THEN PythonStringSpans(line, pos + 1, line_num, byte_offset)
    ELSE LET close == ClosingQuote(line, pos + 1, line[pos], FALSE)
             content == SubSeq(line, pos + 1, close - 1)
             content_start == ByteLen(SubSeq(line, 1, pos))
             words == source_extract_words(content)
             string_start == byte_offset + content_start
         IN [n \in 1..Len(words) |->
                [text |-> words[n][1],
                 line |-> line_num,
                 column |-> content_start,
                 start |-> string_start + 1,
                 end |-> string_start + 1 + ByteLen(words[n][1]),
                 original_text |-> content]]
            \o PythonStringSpans(line, close + 1, line_num, byte_offset)

RECURSIVE PythonLines(_, _, _)
\* The loop over content.lines(), from line number line_num on.
PythonLines(lines, line_num, byte_offset) ==
    IF line_num > Len(lines) THEN <<>>
    ELSE LET line == lines[line_num] IN
         PythonCommentSpans(line, line_num, byte_offset)
         \o PythonStringSpans(line, 1, line_num, byte_offset)
         \o PythonLines(lines, line_num + 1, byte_offset + ByteLen(line) + 1)

\* source_code::parse_python_style
parse_python_style(content) ==
    [panicked |-> FALSE, spans |-> PythonLines(Lines(content), 1, 0)]

(***************************************************************************)
(* parser/mod.rs, config.rs                                                *)
(***************************************************************************)

\* Path::file_name: what follows the last "/" of the path.
file_name(path) ==
    LET slashes == {n \in 1..Len(path) : path[n] = C.slash}
    IN IF slashes = {} THEN path
       ELSE SubSeq(path, (CHOOSE n \in slashes : \A m \in slashes : m <= n) + 1, Len(path))

\* Path::extension: what follows the last "." of the file name; None when
\* the name has no "." or only the one it begins with, or is "..".
extension(path) ==
    LET name == file_name(path)
        dots == {n \in 1..Len(name) : name[n] = C.dot}
    IN IF name = <<C.dot, C.dot>> \/ dots = {} \/ dots = {1} THEN NoValue
       ELSE [some |-> SubSeq(name, (CHOOSE n \in dots : \A m \in dots : m <= n) + 1,
                             Len(name))]

SourceCode(lang) == [kind |-> "SourceCode", lang |-> lang]

\* The match of FileType::from_path on the lowercased extension.
FileTypeOf(ext) ==
    CASE ext \in {<<C.m, C.d>>, <<C.m, C.d, C.x>>, <<C.m, C.a, C.r, C.k, C.d, C.o, C.w, C.n>>} -> [kind |-> "Markdown"]
      [] ext = <<C.r, C.s>> -> SourceCode("Rust")
      [] ext \in {<<C.j, C.s>>, <<C.m, C.j, C.s>>, <<C.c, C.j, C.s>>} -> SourceCode("JavaScript")
      [] ext \in {<<C.t, C.s>>, <<C.m, C.t, C.s>>, <<C.c, C.t, C.s>>} -> SourceCode("TypeScript")
      [] ext = <<C.j, C.s, C.x>> -> SourceCode("Jsx")
      [] ext = <<C.t, C.s, C.x>> -> SourceCode("Tsx")
      [] ext \in {<<C.p, C.y>>, <<C.p, C.y, C.w>>} -> SourceCode("Python")
      [] ext = <<C.g, C.o>> -> SourceCode("Go")
      [] ext = <<C.j, C.a, C.v, C.a>> -> SourceCode("Java")
      [] ext \in {<<C.c>>, <<C.h>>} -> SourceCode("C")
      [] ext \in {<<C.c, C.p, C.p>>, <<C.c, C.c>>, <<C.c, C.x, C.x>>, <<C.h, C.p, C.p>>, <<C.h, C.h>>} -> SourceCode("Cpp")
      [] OTHER -> [kind |-> "PlainText"]

\* FileType::from_path with the extension compared as it is written.
from_path_as_written(path) ==
    FileTypeOf(IF extension(path) = NoValue THEN <<>> ELSE extension(path).some)

\* FileType::from_path(path)
from_path(path) ==
    FileTypeOf(to_lowercase(IF extension(path) = NoValue THEN <<>> ELSE extension(path).some))

\* The parser parse_file hands the content to: the match of parse_file, and
\* for source code the match of source_code::parse.
parser_of(file_type) ==
    CASE file_type.kind = "Markdown" -> "markdown::parse"
      [] file_type.kind = "PlainText" -> "plaintext::parse"
      [] file_type.kind = "SourceCode" ->
            IF file_type.lang = "Python" THEN "parse_python_style" ELSE "parse_c_style"

\* parse_file(path, content), by the FileType the path's extension gives:
\* plaintext::parse for PlainText, source_code::parse for SourceCode(lang),
\* which is parse_c_style for every lang but Python.
parse_file(file_type, content) ==
    IF file_type = "PlainText" THEN plaintext_parse(content)
    ELSE parse_c_style(content)

default_max_suggestions == 5

\* The ignore_patterns of Config::default(): ALL_CAPS, URLs, hashes, emails.
AllCapsPattern == "\\b[A-Z0-9_]{2,}\\b"
UrlPattern == "https?://\\S+"
HashPattern == "\\b[a-fA-F0-9]{32,}\\b"
EmailPattern == "[a-zA-Z0-9._%+-]+@[a-zA-Z0-9.-]+\\.[a-zA-Z]{2,}"

default_ignore_patterns == <<AllCapsPattern, UrlPattern, HashPattern, EmailPattern>>

HashMinLen == 32

(***************************************************************************)
(* Regex::is_match for the patterns above and for a literal pattern         *)
(***************************************************************************)

IsAsciiUpper(ch) == ch >= 65 /\ ch <= 90
IsAsciiLower(ch) == ch >= 97 /\ ch <= 122
IsAsciiLetter(ch) == IsAsciiUpper(ch) \/ IsAsciiLower(ch)
IsWhitespace(ch) == ch \in {C.sp, C.nl, C.cr, 9, 11, 12}

\* \w
IsWordChar(ch) == is_alphabetic(ch) \/ is_numeric(ch) \/ ch = C.us

\* \b between word[k] and word[k + 1]
WordBoundary(word, k) ==
    (k >= 1 /\ k <= Len(word) /\ IsWordChar(word[k]))
        # (k + 1 >= 1 /\ k + 1 <= Len(word) /\ IsWordChar(word[k + 1]))

\* Some run word[i..j] of at least min_len chars of a class stands between
\* two word boundaries.
BoundedRun(word, class, min_len) ==
    \E i \in 1..Len(word) : \E j \in i..Len(word) :
        /\ j - i + 1 >= min_len
        /\ \A k \in i..j : word[k] \in class
        /\ WordBoundary(word, i - 1)
        /\ WordBoundary(word, j)

\* [A-Z0-9_] and [a-fA-F0-9]
AllCapsClass == (65..90) \cup (48..57) \cup {C.us}
HexClass == (97..102) \cup (65..70) \cup (48..57)

\* Some occurrence of `needle` in `text`.
Occurrences(text, needle) ==
    {n \in 1..(Len(text) - Len(needle) + 1) : SubSeq(text, n, n + Len(needle) - 1) = needle}

MatchesUrl(word) ==
    LET http == <<C.h, C.t, C.t, C.p, C.colon, C.slash, C.slash>>
        https == <<C.h, C.t, C.t, C.p, C.s, C.colon, C.slash, C.slash>>
    IN \/ \E n \in Occurrences(word, http) :
            n + Len(http) <= Len(word) /\ ~IsWhitespace(word[n + Len(http)])
       \/ \E n \in Occurrences(word, https) :
            n + Len(https) <= Len(word) /\ ~IsWhitespace(word[n + Len(https)])

IsEmailLocal(ch) ==
    IsAsciiLetter(ch) \/ is_numeric(ch) \/ ch \in {C.dot, C.us, 37, 43, C.hy}
IsEmailDomain(ch) == IsAsciiLetter(ch) \/ is_numeric(ch) \/ ch \in {C.dot, C.hy}

MatchesEmail(word) ==
    \E a \in 2..Len(word) : \E d \in (a + 2)..(Len(word) - 2) :
        /\ word[a] = C.at
        /\ IsEmailLocal(word[a - 1])
        /\ \A k \in (a + 1)..(d - 1) : IsEmailDomain(word[k])
        /\ word[d] = C.dot
        /\ IsAsciiLetter(word[d + 1]) /\ IsAsciiLetter(word[d + 2])

\* A pattern without metacharacters, as a user gives with --ignore-pattern.
tst == <<C.t, C.s, C.t>>
TstPattern == "tst"

\* Regex::is_match(pattern, word)
is_match(pattern, word) ==
    CASE pattern = AllCapsPattern -> BoundedRun(word, AllCapsClass, 2)
      [] pattern = UrlPattern -> MatchesUrl(word)
      [] pattern = HashPattern -> BoundedRun(word, HexClass, HashMinLen)
      [] pattern = EmailPattern -> MatchesEmail(word)
      [] pattern = TstPattern -> Occurrences(word, tst) # {}

(***************************************************************************)
(* checker/mod.rs                                                          *)
(***************************************************************************)

\* SpellChecker::should_ignore(word)
should_ignore(patterns, word) ==
    \/ ByteLen(word) <= 1
    \/ \A n \in 1..Len(word) : is_numeric(word[n])
    \/ \E n \in 1..Len(patterns) : is_match(patterns[n], word)

\* The three `continue` tests of the loops over the spans: the span is
\* neither a personal word, nor ignored, nor a word of the dictionary.
IsMiss(span, dict, personal, patterns) ==
    /\ to_lowercase(span.text) \notin personal
    /\ ~should_ignore(patterns, span.text)
    /\ ~contains(dict, to_lowercase(span.text))

PanickedResult == [panicked |-> TRUE, error_count |-> 0, fixed_count |-> 0, errors |-> <<>>]

RECURSIVE CheckLoop(_, _, _, _, _, _, _)
RECURSIVE PushError(_, _, _, _, _, _, _, _)
\* The `for span in spans` loop of check, from spans[n] on.
CheckLoop(spans, n, errors, dict, personal, patterns, max_suggestions) ==
    IF n > Len(spans)
    THEN [panicked |-> FALSE, error_count |-> Len(errors), fixed_count |-> 0,
          errors |-> errors]
    ELSE IF ~IsMiss(spans[n], dict, personal, patterns)
    THEN CheckLoop(spans, n + 1, errors, dict, personal, patterns, max_suggestions)
    ELSE PushError(spans, n, errors,
                   generate(to_lowercase(spans[n].text), dict, max_suggestions),
                   dict, personal, patterns, max_suggestions)

\* The end of the loop body: the SpellError of spans[n] is pushed.
PushError(spans, n, errors, suggestions, dict, personal, patterns, max_suggestions) ==
    IF suggestions.panicked THEN PanickedResult
    ELSE CheckLoop(spans, n + 1,
                   Append(errors, [word |-> spans[n].text,
                                   line |-> spans[n].line,
                                   column |-> spans[n].column,
                                   context |-> spans[n].original_text,
                                   suggestions |-> suggestions.suggestions]),
                   dict, personal, patterns, max_suggestions)

\* check, once the file is parsed.
CheckParsed(parsed, dict, personal, patterns, max_suggestions) ==
    IF parsed.panicked THEN PanickedResult
    ELSE CheckLoop(parsed.spans, 1, <<>>, dict, personal, patterns, max_suggestions)

DropFirstSuggestion(result) ==
    [result EXCEPT !.errors =
        [n \in 1..Len(result.errors) |->
            [result.errors[n] EXCEPT !.suggestions = IF @ = <<>> THEN <<>> ELSE Tail(@)]]]

\* Mutant: the suggestions of an error are listed from the second one on.
check_rest_of_suggestions(file_type, content, dict, personal, patterns, max_suggestions) ==
    DropFirstSuggestion(CheckParsed(parse_file(file_type, content), dict, personal,
                                    patterns, max_suggestions))

\* SpellChecker::check(file_path, config, colored, format)
check(file_type, content, dict, personal, patterns, max_suggestions) ==
    CheckParsed(parse_file(file_type, content), dict, personal, patterns, max_suggestions)

RECURSIVE ReplacementsLoop(_, _, _, _, _, _)
RECURSIVE PushReplacement(_, _, _, _, _, _, _)
\* The `for span in spans` loop of fix_auto: the (old, new) pairs, or a panic.
ReplacementsLoop(spans, n, replacements, dict, personal, patterns) ==
    IF n > Len(spans) THEN [panicked |-> FALSE, replacements |-> replacements]
    ELSE IF ~IsMiss(spans[n], dict, personal, patterns)
    THEN ReplacementsLoop(spans, n + 1, replacements, dict, personal, patterns)
    ELSE PushReplacement(spans, n, replacements,
                         generate(to_lowercase(spans[n].text), dict, 1),
                         dict, personal, patterns)

\* The end of the loop body: the pair of spans[n] is pushed if there is a
\* top suggestion.
PushReplacement(spans, n, replacements, suggestions, dict, personal, patterns) ==
    IF suggestions.panicked THEN [panicked |-> TRUE, replacements |-> <<>>]
    ELSE ReplacementsLoop(spans, n + 1,
                          IF suggestions.suggestions = <<>> THEN replacements
                          ELSE Append(replacements,
                                      <<spans[n].text, suggestions.suggestions[1]>>),
                          dict, personal, patterns)

\* str::contains
str_contains(text, needle) == Occurrences(text, needle) # {}

\* str::replacen(old, new, 1), `old` not empty
replacen_1(text, old, new) ==
    IF Occurrences(text, old) = {} THEN text
    ELSE LET at == Least(Occurrences(text, old))
         IN SubSeq(text, 1, at - 1) \o new \o SubSeq(text, at + Len(old), Len(text))

RECURSIVE ApplyReplacements(_, _, _, _)
\* The `for (old_word, new_word) in &replacements` loop of fix_auto.
ApplyReplacements(replacements, n, new_content, fixed_count) ==
    IF n > Len(replacements) THEN [new_content |-> new_content, fixed_count |-> fixed_count]
    ELSE IF str_contains(new_content, replacements[n][1])
    THEN ApplyReplacements(replacements, n + 1,
                           replacen_1(new_content, replacements[n][1], replacements[n][2]),
                           fixed_count + 1)
    ELSE ApplyReplacements(replacements, n + 1, new_content, fixed_count)

\* fix_auto, once the replacements are applied: the file is written if
\* something was fixed.
FixApplied(applied, content) ==
    [result |-> [panicked |-> FALSE, error_count |-> 0,
                 fixed_count |-> applied.fixed_count, errors |-> <<>>],
     file |-> IF applied.fixed_count > 0 THEN applied.new_content ELSE content]

\* fix_auto, once the replacements are gathered.
FixFound(found, content) ==
    IF found.panicked THEN [result |-> PanickedResult, file |-> content]
    ELSE FixApplied(ApplyReplacements(found.replacements, 1, content, 0), content)

\* fix_auto, once the file is parsed.
FixParsed(parsed, content, dict, personal, patterns) ==
    IF parsed.panicked THEN [result |-> PanickedResult, file |-> content]
    ELSE FixFound(ReplacementsLoop(parsed.spans, 1, <<>>, dict, personal, patterns), content)

\* Mutant: the new content is counted but never written back.
fix_auto_no_write(file_type, content, dict, personal, patterns) ==
    [FixParsed(parse_file(file_type, content), content, dict, personal, patterns)
        EXCEPT !.file = content]

\* Mutant: the replacements are applied and written, and none is counted.
fix_auto_uncounted(file_type, content, dict, personal, patterns) ==
    [FixParsed(parse_file(file_type, content), content, dict, personal, patterns)
        EXCEPT !.result.fixed_count = 0]

\* SpellChecker::fix_auto(file_path, config, colored): the result and the
\* content of the file afterwards.
fix_auto(file_type, content, dict, personal, patterns) ==
    FixParsed(parse_file(file_type, content), content, dict, personal, patterns)

\* str::parse::<usize> of the answers considered.
parse_usize(input) ==
    CASE input = "0" -> [ok |-> TRUE, value |-> 0]
      [] input = "1" -> [ok |-> TRUE, value |-> 1]
      [] input = "2" -> [ok |-> TRUE, value |-> 2]
      [] OTHER -> [ok |-> FALSE]

\* The choice of a numeric answer.
NumberedChoice(suggestions, idx) ==
    IF idx.ok /\ idx.value > 0 /\ idx.value <= Len(suggestions)
    THEN [some |-> suggestions[idx.value]]
    ELSE NoValue

\* The match of print_interactive_prompt on the trimmed line the user
\* typed: the process exits, or an Option<String> is returned.
PromptMatch(word, suggestions, input) ==
    CASE input \in {"s", "S"} -> [exit |-> FALSE, choice |-> NoValue]
      [] input \in {"a", "A"} -> [exit |-> FALSE, choice |-> [some |-> word]]
      [] input \in {"q", "Q"} -> [exit |-> TRUE]
      [] OTHER -> [exit |-> FALSE, choice |-> NumberedChoice(suggestions, parse_usize(input))]

\* Mutant: "q" is taken as "skip".
print_interactive_prompt_no_quit(word, suggestions, input) ==
    IF input \in {"q", "Q"} THEN [exit |-> FALSE, choice |-> NoValue]
    ELSE PromptMatch(word, suggestions, input)

\* cli::output::print_interactive_prompt
print_interactive_prompt(word, suggestions, input) == PromptMatch(word, suggestions, input)

\* The spans fix_interactive prompts for: those its three `continue` tests
\* let through.
PromptedSpans(file_type, content, dict, personal, patterns) ==
    SelectSeq(parse_file(file_type, content).spans,
              LAMBDA span : IsMiss(span, dict, personal, patterns))

\* `if let Some(choice) = ..`: the lists after the answer for a span.
AfterChoice(span, choice, replacements, words_to_add) ==
    IF choice = NoValue
    THEN [replacements |-> replacements, words_to_add |-> words_to_add]
    ELSE IF choice.some = span.text
    THEN [replacements |-> replacements,
          words_to_add |-> Append(words_to_add, to_lowercase(span.text))]
    ELSE [replacements |-> Append(replacements, <<span.text, choice.some>>),
          words_to_add |-> words_to_add]

\* The personal dictionary file after fix_interactive: the words to add are
\* appended, one per line, when there are some and the configuration names
\* the file.
PersonalDictWritten(config, on_disk, words_to_add) ==
    IF words_to_add = <<>> \/ config.personal_dictionary = NoValue THEN on_disk
    ELSE [content |->
            (IF on_disk = NoValue THEN <<>> ELSE on_disk.content)
            \o ConcatAll([n \in 1..Len(words_to_add) |-> Append(words_to_add[n], C.nl)])]

\* Three patterns regex::Regex::new rejects: a character class that is not
\* closed, a group that is not closed, a repetition with nothing to repeat.
UnclosedClass == "[a-z"
UnclosedGroup == "(tst"
NothingToRepeat == "*tst"

\* Regex::new(pattern)
regex_new(pattern) ==
    IF pattern \in {UnclosedClass, UnclosedGroup, NothingToRepeat}
    THEN [ok |-> FALSE]
    ELSE [ok |-> TRUE, re |-> pattern]

RECURSIVE CompilePatterns(_, _)
\* The loop `for pattern in &config.ignore_patterns` of SpellChecker::new.
CompilePatterns(patterns, compiled) ==
    IF patterns = <<>> THEN compiled
    ELSE CompilePatterns(Tail(patterns),
                         IF regex_new(Head(patterns)).ok
                         THEN Append(compiled, regex_new(Head(patterns)).re)
                         ELSE compiled)

RECURSIVE trim_start(_)
trim_start(s) == IF s # <<>> /\ IsWhitespace(Head(s)) THEN trim_start(Tail(s)) ELSE s

RECURSIVE trim_end(_)
trim_end(s) ==
    IF s # <<>> /\ IsWhitespace(s[Len(s)]) THEN trim_end(SubSeq(s, 1, Len(s) - 1)) ELSE s

\* str::trim
trim(s) == trim_end(trim_start(s))

\* The loop over the lines of the personal dictionary file.
PersonalWordsOf(content) ==
    LET lines == Lines(content)
        kept == {n \in 1..Len(lines) :
                    trim(lines[n]) # <<>> /\ Head(trim(lines[n])) # C.hash}
    IN {to_lowercase(trim(lines[n])) : n \in kept}

\* Dictionary::load(language) where the dictionary file exists: the file is
\* an fst set, or Set::new rejects it.
dictionary_load(on_disk) ==
    IF "final" \in DOMAIN on_disk
    THEN [ok |-> TRUE, dictionary |-> on_disk]
    ELSE [ok |-> FALSE]

\* SpellChecker::new(config); personal_file is the content of the file at
\* config.personal_dictionary, NoValue when there is no such file.
NewBody(config, on_disk, personal_file) ==
    IF ~dictionary_load(on_disk).ok
    THEN [ok |-> FALSE]
    ELSE [ok |-> TRUE,
          dictionary |-> dictionary_load(on_disk).dictionary,
          personal_words |->
              IF config.personal_dictionary = NoValue \/ personal_file = NoValue
              THEN {}
              ELSE PersonalWordsOf(personal_file.content),
          ignore_patterns |-> CompilePatterns(config.ignore_patterns, <<>>)]

RECURSIVE CompileUntilInvalid(_, _)
CompileUntilInvalid(patterns, compiled) ==
    IF patterns = <<>> \/ ~regex_new(Head(patterns)).ok THEN compiled
    ELSE CompileUntilInvalid(Tail(patterns), Append(compiled, regex_new(Head(patterns)).re))

\* SpellChecker::new with a loop that ends at the first invalid pattern.
new_stop_at_invalid(config, on_disk, personal_file) ==
    [NewBody(config, on_disk, personal_file) EXCEPT
        !.ignore_patterns = CompileUntilInvalid(config.ignore_patterns, <<>>)]

new(config, on_disk, personal_file) == NewBody(config, on_disk, personal_file)

\* Outcome of an operation that returns anyhow::Result.
Err == [ok |-> FALSE]

\* SpellChecker::check on a file of the disk: read_to_string fails on a file
\* that cannot be read.
check_file(on_disk, dict, personal, patterns, max_suggestions) ==
    IF ~on_disk.readable THEN Err
    ELSE [ok |-> TRUE,
          result |-> check("PlainText", on_disk.content, dict, personal, patterns,
                           max_suggestions),
          content |-> on_disk.content]

\* The end of fix_auto: fs::write fails on a file that cannot be written.
FixWritten(on_disk, fixed) ==
    IF fixed.result.fixed_count > 0 /\ ~on_disk.writable THEN Err
    ELSE [ok |-> TRUE, result |-> fixed.result, content |-> fixed.file]

\* SpellChecker::fix_auto on a file of the disk.
fix_auto_file(on_disk, dict, personal, patterns) ==
    IF ~on_disk.readable THEN Err
    ELSE FixWritten(on_disk, fix_auto("PlainText", on_disk.content, dict, personal, patterns))

(***************************************************************************)
(* Specification SpecEdit: edit_distance applied to bounded inputs         *)
(***************************************************************************)

MaxEditLen == 3

EditAlphabet == {C.a, C.b, C.eacute}

hello == <<C.h, C.e, C.l, C.l, C.o>>
hallo == <<C.h, C.a, C.l, C.l, C.o>>
hullo == <<C.h, C.u, C.l, C.l, C.o>>
world == <<C.w, C.o, C.r, C.l, C.d>>

\* The pairs of test_edit_distance, in both orders.
EditExamples ==
    LET pairs == {<<hello, hello>>, <<hello, hallo>>, <<hello, hullo>>, <<hello, world>>}
    IN pairs \cup {<<p[2], p[1]>> : p \in pairs}

EditInputs ==
    (StringsUpTo(EditAlphabet, MaxEditLen) \X StringsUpTo(EditAlphabet, MaxEditLen))
    \cup EditExamples

InitEdit ==
    /\ pc = "call"
    /\ \E p \in EditInputs : args = [a |-> p[1], b |-> p[2]]
    /\ ret = NoValue
    /\ dict_file = NoValue
    /\ personal_dict_file = NoValue
    /\ file = NoValue
    /\ personal_words = NoValue
    /\ ignore_patterns = NoValue
    /\ dictionary = NoValue

EditDistance ==
    /\ pc = "call"
    /\ ret' = edit_distance(args.a, args.b)
    /\ pc' = "done"
    /\ UNCHANGED <<args, dict_file, personal_dict_file, dictionary, checker_vars>>

NextEdit == EditDistance

SpecEdit == InitEdit /\ [][NextEdit]_vars

RECURSIVE Levenshtein(_, _)
\* The classic Levenshtein distance, by its recurrence on the two strings.
Levenshtein(a, b) ==
    IF a = <<>> THEN Len(b)
    ELSE IF b = <<>> THEN Len(a)
    ELSE Min(Min(Levenshtein(Tail(a), b) + 1,
                 Levenshtein(a, Tail(b)) + 1),
             Levenshtein(Tail(a), Tail(b)) + (IF Head(a) = Head(b) THEN 0 ELSE 1))

\* C7: edit_distance(a, b) is the Levenshtein distance of a and b over chars
\* (unit costs, empty strings included); it is symmetric, it is 0 on equal
\* arguments, edit_distance("hello","hallo") = 1 and
\* edit_distance("hello","world") = 4.
C7_EditDistanceIsLevenshtein ==
    pc = "done" =>
        /\ ret = Levenshtein(args.a, args.b)
        /\ ret = edit_distance(args.b, args.a)
        /\ (args.a = args.b => ret = 0)
        /\ (args.a = hello /\ args.b = hallo => ret = 1)
        /\ (args.a = hello /\ args.b = world => ret = 4)

\* C7 witness: the distance of "hello" and "world" has been computed.
C7_Witness ==
    /\ pc = "done"
    /\ args.a = hello /\ args.b = world /\ ret = 4

(***************************************************************************)
(* Specification SpecSplit: split_compound_word applied to bounded inputs  *)
(***************************************************************************)

MaxSplitLen == 4

SplitAlphabet == {C.a, C.b, C.A, C.us, C.hy}

camelCase == <<C.c, C.a, C.m, C.e, C.l, C.C, C.a, C.s, C.e>>
snake_case == <<C.s, C.a, C.k, C.e, C.us, C.c, C.a, C.s, C.e>>
kebab_case == <<C.k, C.e, C.b, C.a, C.b, C.hy, C.c, C.a, C.s, C.e>>
camel == <<C.c, C.a, C.m, C.e, C.l>>
case == <<C.c, C.a, C.s, C.e>>
kebab == <<C.k, C.e, C.b, C.a, C.b>>
snake == <<C.s, C.a, C.k, C.e>>

SplitInputs ==
    StringsUpTo(SplitAlphabet, MaxSplitLen) \cup {camelCase, snake_case, kebab_case}

InitSplit ==
    /\ pc = "call"
    /\ \E w \in SplitInputs : args = [word |-> w]
    /\ ret = NoValue
    /\ dict_file = NoValue
    /\ personal_dict_file = NoValue
    /\ file = NoValue
    /\ personal_words = NoValue
    /\ ignore_patterns = NoValue
    /\ dictionary = NoValue

SplitCompoundWord ==
    /\ pc = "call"
    /\ ret' = split_compound_word(args.word)
    /\ pc' = "done"
    /\ UNCHANGED <<args, dict_file, personal_dict_file, dictionary, checker_vars>>

NextSplit == SplitCompoundWord

SpecSplit == InitSplit /\ [][NextSplit]_vars

RECURSIVE ClaimedSplitLoop(_, _, _, _)
\* The splitting C8 describes: a cut at every separator, which is dropped, and
\* before every uppercase letter whose predecessor in the word is a lowercase
\* letter, which is lowercased; no cut anywhere else.  `prev` is the char
\* before Head(rest), 0 at the start of the word.
ClaimedSplitLoop(rest, prev, result, current) ==
    IF rest = <<>> THEN <<result, current>>
    ELSE LET ch == Head(rest) IN
         IF IsSeparator(ch)
         THEN ClaimedSplitLoop(Tail(rest), ch,
                  IF current # <<>> THEN Append(result, current) ELSE result, <<>>)
         ELSE IF is_uppercase(ch) /\ is_lowercase(prev)
         THEN ClaimedSplitLoop(Tail(rest), ch, Append(result, current),
                               <<char_to_lowercase(ch)>>)
         ELSE ClaimedSplitLoop(Tail(rest), ch, result, Append(current, ch))

ClaimedSplit(word) ==
    LET after == ClaimedSplitLoop(word, 0, <<>>, <<>>)
        result == IF after[2] # <<>> THEN Append(after[1], after[2]) ELSE after[1]
    IN IF result = <<>> THEN <<word>> ELSE result

HasBoundary(word) ==
    \/ \E n \in 1..Len(word) : IsSeparator(word[n])
    \/ \E n \in 2..Len(word) : is_uppercase(word[n]) /\ is_lowercase(word[n - 1])

\* C8: split_compound_word cuts a word at every `_` and `-` (dropped) and
\* before every uppercase letter that follows a lowercase letter (lowercased),
\* and nowhere else; "camelCase", "snake_case" and "kebab-case" give
\* ["camel","case"], ["snake","case"], ["kebab","case"]; a word with no
\* separator and no lowercase-to-uppercase boundary comes back unchanged as a
\* one-element list.
C8_SplitOnlyAtBoundaries ==
    pc = "done" =>
        /\ ret = ClaimedSplit(args.word)
        /\ (args.word = camelCase => ret = <<camel, case>>)
        /\ (args.word = snake_case => ret = <<snake, case>>)
        /\ (args.word = kebab_case => ret = <<kebab, case>>)
        /\ (~HasBoundary(args.word) => ret = <<args.word>>)

(***************************************************************************)
(* Specification SpecDict: build_from_words, load_from_path and the        *)
(* queries of the loaded Dictionary                                        *)
(***************************************************************************)

MaxWordList == 3

\* The words the lists are drawn from, and the strings asked for.
ListWords == {<<>>, <<C.a>>, <<C.a, C.b>>, <<C.b>>, <<C.a, C.eacute>>}
ProbeWords == ListWords \cup {<<C.a, C.b, C.a>>, <<C.eacute>>, <<C.b, C.a>>}

InitDict ==
    /\ pc = "start"
    /\ \E L \in StringsUpTo(ListWords, MaxWordList) : args = [words |-> L]
    /\ ret = NoValue
    /\ dict_file = NoValue
    /\ personal_dict_file = NoValue
    /\ file = NoValue
    /\ personal_words = NoValue
    /\ ignore_patterns = NoValue
    /\ dictionary = NoValue

\* Dictionary::build_from_words(words, output_path)
BuildFromWords ==
    /\ pc = "start"
    /\ LET built == build_from_words(args.words)
       IN /\ dict_file' = IF built.ok THEN built.set ELSE NoValue
          /\ ret' = IF built.ok THEN "Ok" ELSE "Err"
    /\ pc' = "built"
    /\ UNCHANGED <<args, personal_dict_file, dictionary, checker_vars>>

\* Dictionary::load_from_path(path)
LoadFromPath ==
    /\ pc = "built"
    /\ IF dict_file = NoValue
       THEN /\ ret' = "Err"
            /\ pc' = "load_failed"
            /\ UNCHANGED dictionary
       ELSE /\ dictionary' = dict_file
            /\ ret' = "Ok"
            /\ pc' = "loaded"
    /\ UNCHANGED <<args, dict_file, personal_dict_file, checker_vars>>

\* Dictionary::words_with_prefix(prefix)
WordsWithPrefix ==
    /\ pc = "loaded"
    /\ \E prefix \in ProbeWords :
          /\ args' = [words |-> args.words, prefix |-> prefix]
          /\ ret' = words_with_prefix(dictionary, prefix)
    /\ pc' = "queried"
    /\ UNCHANGED <<dict_file, personal_dict_file, dictionary, checker_vars>>

NextDict == BuildFromWords \/ LoadFromPath \/ WordsWithPrefix

SpecDict == InitDict /\ [][NextDict]_vars

StrictlyAscending(words) ==
    \A m, n \in 1..Len(words) : m < n => StrLess(words[m], words[n])

\* C5: build_from_words(L, path) succeeds and, once the path is loaded,
\* contains(w) is true exactly for the elements w of L, and all_words()
\* enumerates the distinct elements of L in sorted order.
C5_BuildLoadRoundTrip ==
    /\ pc = "built" => ret = "Ok"
    /\ pc # "load_failed"
    /\ pc = "loaded" =>
          /\ \A w \in ProbeWords :
                contains(dictionary, w) <=> (w \in Range(args.words))
          /\ Range(all_words(dictionary)) = Range(args.words)
          /\ StrictlyAscending(all_words(dictionary))

\* C5 witness: a list with a repeated word, given out of order, has been
\* built and loaded.
C5_Witness ==
    /\ pc = "loaded"
    /\ args.words = <<<<C.b>>, <<C.a, C.b>>, <<C.b>>>>
    /\ all_words(dictionary) = <<<<C.a, C.b>>, <<C.b>>>>

\* C6: words_with_prefix(p) on the Dictionary built from L returns exactly
\* the words of L that start with p, each once, in ascending order; so it
\* holds every w of L of which p is a prefix, w itself included.
C6_PrefixQueryExact ==
    pc = "queried" =>
        /\ Range(ret) = {w \in Range(args.words) : StartsWith(w, args.prefix)}
        /\ StrictlyAscending(ret)
        /\ \A w \in Range(args.words) :
              args.prefix \in Prefixes(w) => \E n \in 1..Len(ret) : ret[n] = w

\* C6 witness: a query whose prefix is itself a word of the list returned that
\* word and a longer one.
C6_Witness ==
    /\ pc = "queried"
    /\ args.prefix = <<C.a>>
    /\ ret = <<<<C.a>>, <<C.a, C.b>>, <<C.a, C.eacute>>>>

(***************************************************************************)
(* Specification SpecGen: generate applied to bounded inputs               *)
(***************************************************************************)

MaxGenLen == 3
MaxDictSize == 3
MaxSuggestions == 3

GenAlphabet == {C.a, C.e, C.eacute}

\* The words the dictionaries are made of.
GenDictWords ==
    { <<C.a>>, <<C.a, C.e>>, <<C.e, C.a>>, <<C.a, C.a, C.e>>,
      <<C.a, C.a, C.e, C.a>>, <<C.e, C.a, C.a>>, <<C.eacute, C.a>> }

GenDictionaries ==
    {DictionaryOf(ws) : ws \in {x \in SUBSET GenDictWords : Cardinality(x) <= MaxDictSize}}

InitGen ==
    /\ pc = "call"
    /\ \E w \in StringsUpTo(GenAlphabet, MaxGenLen), m \in 0..MaxSuggestions :
          args = [word |-> w, max_suggestions |-> m]
    /\ ret = NoValue
    /\ dict_file = NoValue
    /\ personal_dict_file = NoValue
    /\ file = NoValue
    /\ personal_words = NoValue
    /\ ignore_patterns = NoValue
    /\ dictionary \in GenDictionaries

Generate ==
    /\ pc = "call"
    /\ ret' = generate(args.word, dictionary, args.max_suggestions)
    /\ pc' = "done"
    /\ UNCHANGED <<args, dict_file, personal_dict_file, dictionary, checker_vars>>

NextGen == Generate

SpecGen == InitGen /\ [][NextGen]_vars

\* C4: whatever the word, the dictionary and max_suggestions >= 0 (0 and the
\* words of at most 3 bytes that reach the full scan included), a list that
\* generate returns has at most max_suggestions elements.
C4_AtMostMaxSuggestions ==
    pc = "done" /\ ~ret.panicked => Len(ret.suggestions) <= args.max_suggestions

\* generate has returned a full list although one more candidate stood ready.
C4_Witness ==
    /\ pc = "done"
    /\ ~ret.panicked
    /\ args.max_suggestions >= 1
    /\ Len(ret.suggestions) = args.max_suggestions
    /\ LET more == GenerateBody(args.word, dictionary, args.max_suggestions + 1)
       IN ~more.panicked /\ Len(more.suggestions) > args.max_suggestions

\* C14: generate never fails: whatever the word (the words of 0, 1 and 2
\* characters and the words with multi-byte characters included), the
\* dictionary and max_suggestions, it returns a list.
C14_GenerateNeverFails == pc = "done" => ~ret.panicked

\* The dictionary words that share the first 3 characters of the word and
\* lie at edit distance <= 2, by ascending distance (ties in dictionary
\* order), cut at max_suggestions.
FilterThenTruncate(word, dict, max_suggestions) ==
    LET Shares(w) == StartsWith(w, SubSeq(word, 1, 3))
        Near(w) == edit_distance(word, w) <= 2
    IN Truncate(SortByDistance(word, SelectSeq(SelectSeq(all_words(dict), Shares), Near)),
                max_suggestions)

\* C19: for a word of at least 3 characters, stage 1 contributes exactly the
\* first max_suggestions elements of the list of the dictionary words that
\* share the word's first 3 characters and lie at edit distance <= 2, ordered
\* by ascending distance: filtering and then truncating gives what the code's
\* truncating and then filtering gives, and the list returned starts with it.
C19_Stage1FilterThenTruncate ==
    pc = "done" /\ ~ret.panicked /\ Len(args.word) >= 3 =>
        LET claimed == FilterThenTruncate(args.word, dictionary, args.max_suggestions)
        IN /\ Stage1(args.word, dictionary, args.max_suggestions) = claimed
           /\ Len(ret.suggestions) >= Len(claimed)
           /\ SubSeq(ret.suggestions, 1, Len(claimed)) = claimed

\* The strings one deletion, one swap of adjacent characters, or one
\* substitution by the partner of a confusion pair (either way) away from
\* the word.
ConfusionNeighbours(word) ==
    {RemoveAt(word, i) : i \in 1..Len(word)}
    \cup {SwapAt(word, i) : i \in 1..(Len(word) - 1)}
    \cup {[word EXCEPT ![i] = common_replacements[r][2]] :
            <<i, r>> \in {x \in (1..Len(word)) \X (1..Len(common_replacements)) :
                            word[x[1]] = common_replacements[x[2]][1]}}
    \cup {[word EXCEPT ![i] = common_replacements[r][1]] :
            <<i, r>> \in {x \in (1..Len(word)) \X (1..Len(common_replacements)) :
                            word[x[1]] = common_replacements[x[2]][2]}}

\* C20: stage 2 considers every string obtained from the word by deleting one
\* character, swapping two adjacent characters, or substituting one character
\* by its partner in the confusion table, in both directions; each of them
\* that is a dictionary word is in the list unless max_suggestions was
\* reached.
C20_Stage2Transformations ==
    pc = "done" /\ ~ret.panicked =>
        /\ ConfusionNeighbours(args.word) \subseteq Range(generate_transformations(args.word))
        /\ Len(ret.suggestions) < args.max_suggestions =>
              \A t \in ConfusionNeighbours(args.word) :
                  contains(dictionary, t) => Member(ret.suggestions, t)

\* A bound no list of suggestions reaches.
Unbounded(dict) == Cardinality(dict.final) + 1

\* The list after stage 1, after stage 2 and after stage 3 when no stage
\* is stopped by max_suggestions.
AfterStage1(word, dict) ==
    IF ByteLen(word) >= 3 THEN Stage1(word, dict, Unbounded(dict)) ELSE <<>>

AfterStage2(word, dict) ==
    Stage2(AfterStage1(word, dict), generate_transformations(word), dict,
           Unbounded(dict)).suggestions

AfterStage3(word, dict) ==
    IF ByteLen(word) >= 2
    THEN Stage3(AfterStage2(word, dict),
                SortByDistance(word, words_with_prefix(dict, SliceTo(word, 2))),
                word, Unbounded(dict)).suggestions
    ELSE AfterStage2(word, dict)

AfterStage4(word, dict) ==
    IF ByteLen(word) <= 3
    THEN Stage4(AfterStage3(word, dict), word, dict, Unbounded(dict))
    ELSE AfterStage3(word, dict)

IsPrefixOf(s, t) == Len(s) <= Len(t) /\ SubSeq(t, 1, Len(s)) = s

AscendingDistance(word, list) ==
    \A n \in 1..(Len(list) - 1) :
        edit_distance(word, list[n]) <= edit_distance(word, list[n + 1])

\* No slice of the word falls inside a character.
SlicesOk(word) ==
    /\ ByteLen(word) >= 3 => IsCharBoundary(word, 3)
    /\ ByteLen(word) >= 2 => IsCharBoundary(word, 2)

\* C18: the list generate returns is the concatenation of what the stages
\* 1, 2, 3, 4 contribute in this order, cut at max_suggestions; the stage-1
\* segment and the stage-4 segment are in ascending edit distance, and no
\* later stage reorders or removes an entry of an earlier one.
C18_StagesConcatenated ==
    pc = "done" /\ ~ret.panicked /\ SlicesOk(args.word) =>
        LET s1 == AfterStage1(args.word, dictionary)
            s2 == AfterStage2(args.word, dictionary)
            s3 == AfterStage3(args.word, dictionary)
            s4 == AfterStage4(args.word, dictionary)
        IN /\ IsPrefixOf(s1, s2) /\ IsPrefixOf(s2, s3) /\ IsPrefixOf(s3, s4)
           /\ ret.suggestions = Truncate(s4, args.max_suggestions)
           /\ AscendingDistance(args.word, s1)
           /\ AscendingDistance(args.word, SubSeq(s4, Len(s3) + 1, Len(s4)))

\* Stage 1 and stage 4 both contributed, stage 4 two words at different
\* distances, and the list was cut.
C18_Witness ==
    /\ pc = "done" /\ ~ret.panicked /\ SlicesOk(args.word)
    /\ AfterStage1(args.word, dictionary) # <<>>
    /\ LET s3 == AfterStage3(args.word, dictionary)
           s4 == AfterStage4(args.word, dictionary)
       IN /\ Len(s4) >= Len(s3) + 2
          /\ edit_distance(args.word, s4[Len(s3) + 1]) < edit_distance(args.word, s4[Len(s4)])
          /\ args.max_suggestions = Len(s4) - 1
          /\ Len(ret.suggestions) = args.max_suggestions

\* The list generate returns for k is the first k elements of the list it
\* returns for a larger bound; a call that fails returns no list.
IsCutOf(lesser, greater, k) ==
    /\ lesser.panicked = greater.panicked
    /\ ~greater.panicked => lesser.suggestions = Truncate(greater.suggestions, k)

\* C28: generate is prefix-consistent in max_suggestions: for 1 <= k <= n,
\* generate(word, dict, k) is the first k elements (all of them, if fewer) of
\* generate(word, dict, n); so the correction auto-fix applies, generate with
\* max 1, is the first suggestion check reports for the word.
C28_PrefixConsistent ==
    pc = "done" =>
        \A k \in 1..args.max_suggestions :
            IsCutOf(generate(args.word, dictionary, k), ret, k)

\* C28 where both calls return.
C28_PrefixConsistentWhenReturned ==
    pc = "done" /\ ~ret.panicked =>
        \A k \in 1..args.max_suggestions :
            \/ generate(args.word, dictionary, k).panicked
            \/ generate(args.word, dictionary, k).suggestions = Truncate(ret.suggestions, k)

\* C29: a list generate returns has no duplicates, holds only words of the
\* dictionary, each within Levenshtein distance 3 of the word; a word that
\* is not in the dictionary is never among its own suggestions.
C29_SuggestionsSound ==
    pc = "done" /\ ~ret.panicked =>
        /\ \A n, m \in 1..Len(ret.suggestions) :
              ret.suggestions[n] = ret.suggestions[m] => n = m
        /\ \A n \in 1..Len(ret.suggestions) :
              /\ contains(dictionary, ret.suggestions[n])
              /\ edit_distance(args.word, ret.suggestions[n]) <= 3
        /\ ~contains(dictionary, args.word) => ~Member(ret.suggestions, args.word)

\* generate has returned a word of stage 1 and, from the later stages, others
\* that are not the word itself, which is not in the dictionary.
C29_Witness ==
    /\ pc = "done"
    /\ ~ret.panicked
    /\ ~contains(dictionary, args.word)
    /\ ByteLen(args.word) >= 3
    /\ IsCharBoundary(args.word, 3)
    /\ Stage1(args.word, dictionary, args.max_suggestions) # <<>>
    /\ Len(ret.suggestions) > Len(Stage1(args.word, dictionary, args.max_suggestions))
    /\ \E n \in 1..Len(ret.suggestions) : edit_distance(args.word, ret.suggestions[n]) >= 2

(***************************************************************************)
(* Specification SpecPlain: plain-text tokenization of bounded contents    *)
(***************************************************************************)

MaxPlainLen == 4

PlainAlphabet == {C.a, C.B, C.eacute, C.hy, C.sp, C.nl}

Hello == <<C.H, C.e, C.l, C.l, C.o>>
This == <<C.T, C.h, C.i, C.s>>
is == <<C.i, C.s>>
test == <<C.t, C.e, C.s, C.t>>

\* "Hello, world! This is a test."
HelloWorldText ==
    Hello \o <<C.comma, C.sp>> \o world \o <<C.bang, C.sp>> \o This \o <<C.sp>>
    \o is \o <<C.sp, C.a, C.sp>> \o test \o <<C.dot>>

PlainContents == StringsUpTo(PlainAlphabet, MaxPlainLen) \cup {HelloWorldText}

InitPlain ==
    /\ pc = "call"
    /\ \E content \in PlainContents : args = [content |-> content]
    /\ ret = NoValue
    /\ dict_file = NoValue
    /\ personal_dict_file = NoValue
    /\ file = NoValue
    /\ personal_words = NoValue
    /\ ignore_patterns = NoValue
    /\ dictionary = NoValue

PlainTextParse ==
    /\ pc = "call"
    /\ ret' = plaintext_parse(args.content)
    /\ pc' = "done"
    /\ UNCHANGED <<args, dict_file, personal_dict_file, dictionary, checker_vars>>

NextPlain == PlainTextParse

SpecPlain == InitPlain /\ [][NextPlain]_vars

\* The maximal runs of alphabetic, apostrophe and hyphen chars of a line, as
\* <<first, last>> positions in reading order.
RECURSIVE RunsFrom(_, _)
RunsFrom(line, from) ==
    IF from > Len(line) THEN <<>>
    ELSE IF ~IsPlainWordChar(line[from]) THEN RunsFrom(line, from + 1)
    ELSE LET last == CHOOSE m \in from..Len(line) :
                        /\ \A k \in from..m : IsPlainWordChar(line[k])
                        /\ (m = Len(line) \/ ~IsPlainWordChar(line[m + 1]))
         IN <<SubSeq(line, from, last)>> \o RunsFrom(line, last + 1)

\* The spans C9 describes for one line: the sub-words of at least 2 chars of
\* every maximal run, each with the number of the line.
ClaimedLineWords(line, line_num) ==
    LET runs == RunsFrom(line, 1)
        subwords == ConcatAll([n \in 1..Len(runs) |-> plaintext_split_compound_word(runs[n])])
        kept == SelectSeq(subwords, LAMBDA w : Len(w) >= 2)
    IN [n \in 1..Len(kept) |-> <<kept[n], line_num>>]

ClaimedPlainWords(content) ==
    LET lines == Lines(content)
    IN ConcatAll([n \in 1..Len(lines) |-> ClaimedLineWords(lines[n], n)])

\* C9: plain-text tokenization emits, in reading order, one span for every
\* sub-word of at least 2 characters of every maximal run of alphabetic,
\* apostrophe and hyphen characters, drops every single-character word and
\* numbers the lines from 1; "Hello, world! This is a test." gives
\* [Hello, world, This, is, test], all on line 1.
C9_PlainTextSpans ==
    pc = "done" =>
        /\ ~ret.panicked
        /\ [n \in 1..Len(ret.spans) |-> <<ret.spans[n].text, ret.spans[n].line>>]
               = ClaimedPlainWords(args.content)
        /\ (args.content = HelloWorldText =>
               [n \in 1..Len(ret.spans) |-> <<ret.spans[n].text, ret.spans[n].line>>]
                   = <<<<Hello, 1>>, <<world, 1>>, <<This, 1>>, <<is, 1>>, <<test, 1>>>>)

\* A string with neither `_` nor `-` in it.
HasNoSeparator(w) == \A n \in 1..Len(w) : ~IsSeparator(w[n])

\* The runs of word characters of all the lines of a content.
RunsOf(content) ==
    LET lines == Lines(content)
    IN ConcatAll([n \in 1..Len(lines) |-> RunsFrom(lines[n], 1)])

\* C27: every sub-word compound splitting produces from a run of word
\* characters is non-empty and free of `_` and `-`, runs made only of hyphens
\* included, and so no span of plain-text tokenization holds a hyphen or an
\* underscore.
C27_NoSeparatorInSubWords ==
    pc = "done" =>
        /\ \A n \in 1..Len(RunsOf(args.content)) :
              \E split_words \in {plaintext_split_compound_word(RunsOf(args.content)[n])} :
                  \A m \in 1..Len(split_words) :
                      split_words[m] # <<>> /\ HasNoSeparator(split_words[m])
        /\ ~ret.panicked => \A n \in 1..Len(ret.spans) : HasNoSeparator(ret.spans[n].text)

\* The word of `text` begins at the 1-based `column` of the line, counted in
\* chars or in bytes; the split lowercases the first letter of a sub-word.
WordBeginsAt(line, text, column) ==
    \E k \in 1..Len(line) :
        /\ k = column \/ ByteLen(SubSeq(line, 1, k - 1)) + 1 = column
        /\ k + Len(text) - 1 <= Len(line)
        /\ to_lowercase(SubSeq(line, k, k + Len(text) - 1)) = to_lowercase(text)

\* C25: every span of plain-text tokenization carries the 1-based column at
\* which its own word begins in its line, and of two spans of one line the
\* later one, such as the second sub-word of a compound, has the larger
\* column.
C25_ColumnOfOwnWord ==
    pc = "done" /\ ~ret.panicked =>
        /\ \A n \in 1..Len(ret.spans) :
              WordBeginsAt(Lines(args.content)[ret.spans[n].line],
                           ret.spans[n].text, ret.spans[n].column)
        /\ \A n, m \in 1..Len(ret.spans) :
              n < m /\ ret.spans[n].line = ret.spans[m].line
                  => ret.spans[n].column < ret.spans[m].column

(***************************************************************************)
(* Specification SpecSource: tokenization of bounded source files          *)
(***************************************************************************)

MaxSourceLen == 4

SourceAlphabet == {C.a, C.b, C.slash, C.sq, C.dq, C.bslash, C.nl}

CommentWord == <<C.c, C.o, C.m, C.m, C.e, C.n, C.t>>
WithWord == <<C.w, C.i, C.t, C.h>>
WordsWord == <<C.w, C.o, C.r, C.d, C.s>>

\* "ab // comment with words"
CommentedLine ==
    <<C.a, C.b, C.sp, C.slash, C.slash, C.sp>> \o CommentWord \o <<C.sp>> \o WithWord
    \o <<C.sp>> \o WordsWord

\* "http://host", quotes included
UrlLiteral ==
    <<C.dq, C.h, C.t, C.t, C.p, C.colon, C.slash, C.slash, C.h, C.o, C.s, C.t, C.dq>>

\* "ab" // comment
LiteralThenComment ==
    <<C.dq, C.a, C.b, C.dq, C.sp, C.slash, C.slash, C.sp>> \o CommentWord

SourceContents ==
    StringsUpTo(SourceAlphabet, MaxSourceLen)
    \cup {CommentedLine, UrlLiteral, LiteralThenComment}

InitSource ==
    /\ pc = "call"
    /\ \E content \in SourceContents : args = [content |-> content]
    /\ ret = NoValue
    /\ dict_file = NoValue
    /\ personal_dict_file = NoValue
    /\ file = NoValue
    /\ personal_words = NoValue
    /\ ignore_patterns = NoValue
    /\ dictionary = NoValue

ParseCStyle ==
    /\ pc = "call"
    /\ ret' = parse_c_style(args.content)
    /\ pc' = "done"
    /\ UNCHANGED <<args, dict_file, personal_dict_file, dictionary, checker_vars>>

NextSource == ParseCStyle

SpecSource == InitSource /\ [][NextSource]_vars

\* The words of a text: its maximal runs of alphabetic chars of at least 2
\* chars.
RECURSIVE AlphabeticRuns(_, _)
AlphabeticRuns(text, from) ==
    IF from > Len(text) THEN {}
    ELSE IF ~is_alphabetic(text[from]) THEN AlphabeticRuns(text, from + 1)
    ELSE LET last == CHOOSE m \in from..Len(text) :
                        /\ \A k \in from..m : is_alphabetic(text[k])
                        /\ (m = Len(text) \/ ~is_alphabetic(text[m + 1]))
         IN (IF last > from THEN {SubSeq(text, from, last)} ELSE {})
            \cup AlphabeticRuns(text, last + 1)

WordsIn(text) == AlphabeticRuns(text, 1)

\* A lexical reading of one line, from line[pos]: `code` is the text outside
\* comments and string literals (each comment and literal replaced by a
\* blank), `prose` the text of the comment and of the literals.  A literal is
\* a quote up to its closing quote on the line; a quote that is never closed
\* opens no literal and belongs to the code.
RECURSIVE Lex(_, _)
Lex(line, pos) ==
    IF pos > Len(line) THEN [code |-> <<>>, prose |-> <<>>]
    ELSE IF pos < Len(line) /\ line[pos] = C.slash /\ line[pos + 1] = C.slash
    THEN [code |-> <<>>, prose |-> <<C.sp>> \o SubSeq(line, pos + 2, Len(line))]
    ELSE IF IsQuote(line[pos]) /\ ClosingQuote(line, pos + 1, line[pos], FALSE) # 0
    THEN LET close == ClosingQuote(line, pos + 1, line[pos], FALSE)
             rest == Lex(line, close + 1)
         IN [code |-> <<C.sp>> \o rest.code,
             prose |-> <<C.sp>> \o SubSeq(line, pos + 1, close - 1) \o rest.prose]
    ELSE LET rest == Lex(line, pos + 1)
         IN [code |-> <<line[pos]>> \o rest.code, prose |-> rest.prose]

\* The words of the comment of a line, the comment taken from the first "//"
\* of the line.
CommentWords(line) ==
    IF SlashSlashAt(line) = {} THEN {}
    ELSE WordsIn(SubSeq(line, Least(SlashSlashAt(line)) + 2, Len(line)))

SpanTexts(spans, line_num) ==
    {spans[n].text : n \in {m \in 1..Len(spans) : spans[m].line = line_num}}

\* C10: C-style tokenization extracts the words of every `// ...` line
\* comment, and no span it emits has for text an identifier or keyword of the
\* executable code outside comments and string literals, on any line, lines
\* with an unterminated or unpaired quote included.
C10_CStyleOnlyCommentsAndStrings ==
    pc = "done" =>
        \A n \in 1..Len(Lines(args.content)) :
            LET line == Lines(args.content)[n]
                emitted == SpanTexts(ret.spans, n)
            IN /\ CommentWords(line) \subseteq emitted
               /\ \A w \in emitted :
                     w \in WordsIn(Lex(line, 1).code) =>
                         w \in WordsIn(Lex(line, 1).prose) \cup CommentWords(line)

RECURSIVE CommentStartOutside(_, _)
\* The position of the first "//" of the line, from line[pos] on, that lies
\* outside every string literal; 0 when there is none.  A literal is a quote
\* up to its closing quote on the line.
CommentStartOutside(line, pos) ==
    IF pos >= Len(line) THEN 0
    ELSE IF line[pos] = C.slash /\ line[pos + 1] = C.slash THEN pos
    ELSE IF IsQuote(line[pos]) /\ ClosingQuote(line, pos + 1, line[pos], FALSE) # 0
    THEN CommentStartOutside(line, ClosingQuote(line, pos + 1, line[pos], FALSE) + 1)
    ELSE CommentStartOutside(line, pos + 1)

RECURSIVE CommentOutsideLines(_, _, _)
\* The spans of the lines when the comment of each line is the text after its
\* first "//" outside the string literals.
CommentOutsideLines(lines, line_num, byte_offset) ==
    IF line_num > Len(lines) THEN <<>>
    ELSE LET line == lines[line_num]
             at == CommentStartOutside(line, 1)
         IN (IF at = 0 THEN <<>> ELSE CommentSpansAt(line, at, line_num, byte_offset))
            \o CStyleStringSpans(line, 1, line_num, byte_offset)
            \o CommentOutsideLines(lines, line_num + 1, byte_offset + ByteLen(line) + 1)

\* C21: the comment of a line of C-style source starts at the first "//"
\* outside every string literal; the text after a "//" inside a quoted string
\* is not extracted as comment words.
C21_CommentStartsOutsideStrings ==
    pc = "done" =>
        ret.spans = CommentOutsideLines(Lines(args.content), 1, 0)

(***************************************************************************)
(* Specification SpecPython: tokenization of bounded Python files          *)
(***************************************************************************)

MaxPythonLen == 6

PythonAlphabet == {C.a, C.hash, C.dq, C.sq, C.nl}

\* # This is a test
PythonCommentLine ==
    <<C.hash, C.sp>> \o This \o <<C.sp>> \o is \o <<C.sp, C.a, C.sp>> \o test

\* "a # b" # comment
HashInLiteralLine ==
    <<C.dq, C.a, C.sp, C.hash, C.sp, C.b, C.dq, C.sp, C.hash, C.sp>> \o CommentWord

PythonContents ==
    StringsUpTo(PythonAlphabet, MaxPythonLen) \cup {PythonCommentLine, HashInLiteralLine}

InitPython ==
    /\ pc = "call"
    /\ \E content \in PythonContents : args = [content |-> content]
    /\ ret = NoValue
    /\ dict_file = NoValue
    /\ personal_dict_file = NoValue
    /\ file = NoValue
    /\ personal_words = NoValue
    /\ ignore_patterns = NoValue
    /\ dictionary = NoValue

ParsePythonStyle ==
    /\ pc = "call"
    /\ ret' = parse_python_style(args.content)
    /\ pc' = "done"
    /\ UNCHANGED <<args, dict_file, personal_dict_file, dictionary, checker_vars>>

NextPython == ParsePythonStyle

SpecPython == InitPython /\ [][NextPython]_vars

\* The byte offset at which line number line_num of the content begins.
LineOffset(lines, line_num) ==
    IF line_num = 1 THEN 0
    ELSE ByteLen(ConcatAll([n \in 1..(line_num - 1) |-> Append(lines[n], C.nl)]))

\* The "#" at line[at] is preceded on its line by an even number of quotes.
EvenQuotesBefore(line, at) ==
    Cardinality({n \in 1..(at - 1) : IsQuote(line[n])}) % 2 = 0

\* A span is a comment word of the line: it lies on the line and its byte
\* position in the file is the one of its column.
IsCommentSpan(span, line_num, byte_offset) ==
    span.line = line_num /\ span.start = byte_offset + span.column

\* C22: in Python-style tokenization, on every line the words after a "#"
\* preceded by an even number of quote characters are extracted as comment
\* words, also when an earlier "#" of the line sits inside a string, and a
\* "#" preceded by an odd number of quote characters starts no comment.
C22_HashAfterEvenQuotes ==
    pc = "done" =>
        \A line_num \in 1..Len(Lines(args.content)) :
            \E line \in {Lines(args.content)[line_num]} :
            \E byte_offset \in {LineOffset(Lines(args.content), line_num)} :
                \A at \in {n \in 1..Len(line) : line[n] = C.hash} :
                    \E idx \in {ByteLen(SubSeq(line, 1, at - 1))} :
                    \E comment \in {SubSeq(line, at + 1, Len(line))} :
                    \E words \in {source_extract_words(comment)} :
                        IF EvenQuotesBefore(line, at)
                        THEN \A n \in 1..Len(words) :
                                 \E m \in 1..Len(ret.spans) :
                                     /\ IsCommentSpan(ret.spans[m], line_num, byte_offset)
                                     /\ ret.spans[m].text = words[n][1]
                                     /\ ret.spans[m].column = idx + 1 + words[n][2]
                        ELSE \A m \in 1..Len(ret.spans) :
                                 ~ /\ IsCommentSpan(ret.spans[m], line_num, byte_offset)
                                   /\ ret.spans[m].original_text = comment

\* The same for the first "#" of every line, the one the code looks at.
C22_FirstHashAfterEvenQuotes ==
    pc = "done" =>
        \A line_num \in 1..Len(Lines(args.content)) :
            \E line \in {Lines(args.content)[line_num]} :
            \E byte_offset \in {LineOffset(Lines(args.content), line_num)} :
                \A at \in {n \in 1..Len(line) :
                              line[n] = C.hash /\ \A k \in 1..(n - 1) : line[k] # C.hash} :
                    \E idx \in {ByteLen(SubSeq(line, 1, at - 1))} :
                    \E comment \in {SubSeq(line, at + 1, Len(line))} :
                    \E words \in {source_extract_words(comment)} :
                        IF EvenQuotesBefore(line, at)
                        THEN \A n \in 1..Len(words) :
                                 \E m \in 1..Len(ret.spans) :
                                     /\ IsCommentSpan(ret.spans[m], line_num, byte_offset)
                                     /\ ret.spans[m].text = words[n][1]
                                     /\ ret.spans[m].column = idx + 1 + words[n][2]
                        ELSE \A m \in 1..Len(ret.spans) :
                                 ~ /\ IsCommentSpan(ret.spans[m], line_num, byte_offset)
                                   /\ ret.spans[m].original_text = comment

(***************************************************************************)
(* Specification SpecMarkdown: Markdown tokenization of bounded sequences  *)
(* of parser events                                                        *)
(***************************************************************************)

MaxEvents == 4

\* "is a\ntest"
IsATest == is \o <<C.sp, C.a, C.nl>> \o test

\* e-acute, nineteen spaces, "tst": the word is at byte offset 21.
FarWord == <<C.eacute>> \o [n \in 1..19 |-> C.sp] \o tst

EventSet ==
    { StartCodeBlock, EndCodeBlock, OtherEvent, SoftBreak, Code(Hello), Text(tst),
      Text(IsATest), Text(FarWord) }

InitMarkdown ==
    /\ pc = "call"
    /\ \E events \in StringsUpTo(EventSet, MaxEvents) : args = [events |-> events]
    /\ ret = NoValue
    /\ dict_file = NoValue
    /\ personal_dict_file = NoValue
    /\ dictionary = NoValue
    /\ file = NoValue
    /\ personal_words = NoValue
    /\ ignore_patterns = NoValue

\* markdown::parse(content)
MarkdownParse ==
    /\ pc = "call"
    /\ ret' = markdown_parse(args.events)
    /\ pc' = "done"
    /\ UNCHANGED <<args, dict_file, personal_dict_file, dictionary, checker_vars>>

NextMarkdown == MarkdownParse

SpecMarkdown == InitMarkdown /\ [][NextMarkdown]_vars

\* The n-th event lies between the start of a code block and its end.
InCodeBlock(events, n) ==
    \E m \in 1..(n - 1) :
        /\ events[m] = StartCodeBlock
        /\ \A k \in (m + 1)..(n - 1) : events[k] # EndCodeBlock

\* The words of the text nodes outside code blocks, in reading order.
WordsOutsideCode(events) ==
    ConcatAll([n \in 1..Len(events) |->
        IF events[n].kind = "Text" /\ ~InCodeBlock(events, n)
        THEN [k \in 1..Len(markdown_extract_words(events[n].text)) |->
                  markdown_extract_words(events[n].text)[k][1]]
        ELSE <<>>])

\* The texts of the spans returned.
SpanWords == [n \in 1..Len(ret.spans) |-> ret.spans[n].text]

\* C11: for every sequence of events the Markdown tokenizer emits no span
\* from a text node between the start and the end of a code block nor from
\* an inline code span, and it word-extracts every other text node, one that
\* follows an inline code span or a closed code block included.
C11_CodeExcluded ==
    pc = "done" => ~ret.panicked /\ SpanWords = WordsOutsideCode(args.events)

\* C11 on the sequences on which markdown::parse returns.
C11_CodeExcludedWhenReturned ==
    pc = "done" /\ ~ret.panicked => SpanWords = WordsOutsideCode(args.events)

\* A text node in a code block is skipped, those after the closed block and
\* after an inline code span are read.
C11_TextAfterCodeRead ==
    /\ pc = "done"
    /\ args.events = <<StartCodeBlock, Text(tst), EndCodeBlock, Text(IsATest)>>
    /\ SpanWords = <<is, <<C.a>>, test>>

Fence == <<C.bq, C.bq, C.bq, C.nl>>

\* The text of the document an event stands for: a text node its text, an
\* inline code span its text between backquotes, the start and the end of a
\* code block a fence line, a soft break the newline inside a paragraph, and
\* any other event the end of a paragraph with the blank line after it.
DocumentText(event) ==
    CASE event.kind = "Text" -> event.text
      [] event.kind = "Code" -> <<C.bq>> \o event.text \o <<C.bq>>
      [] event.kind = "Start(CodeBlock)" -> Fence
      [] event.kind = "End(CodeBlock)" -> Fence
      [] event.kind = "SoftBreak" -> <<C.nl>>
      [] OTHER -> <<C.nl, C.nl>>

\* The document before the n-th event.
DocumentBefore(events, n) ==
    ConcatAll([m \in 1..(n - 1) |-> DocumentText(events[m])])

\* For the words of the text nodes outside code blocks, in reading order: 1
\* plus the number of newlines of the document before the word.
LinesInDocument(events) ==
    ConcatAll([n \in 1..Len(events) |->
        IF events[n].kind = "Text" /\ ~InCodeBlock(events, n)
        THEN [k \in 1..Len(markdown_extract_words(events[n].text)) |->
                  1 + CountNewlines(DocumentBefore(events, n))
                    + CountNewlines(SliceTo(events[n].text,
                                            markdown_extract_words(events[n].text)[k][2]))]
        ELSE <<>>])

\* The lines of the spans returned.
SpanLines == [n \in 1..Len(ret.spans) |-> ret.spans[n].line]

\* C24: in Markdown tokenization the line of a span is 1 plus the number of
\* newline characters of the document before the span's word, so that words
\* of paragraphs separated by blank lines, soft breaks or a skipped code
\* block get increasing line numbers.
C24_LineCountsNewlines ==
    pc = "done" /\ ~ret.panicked => SpanLines = LinesInDocument(args.events)

(***************************************************************************)
(* Specification SpecType: the format of a file, from its path             *)
(***************************************************************************)

\* The extensions from_path knows, and some it does not.
KnownExtensions ==
    { <<C.m, C.d>>, <<C.m, C.d, C.x>>,
      <<C.m, C.a, C.r, C.k, C.d, C.o, C.w, C.n>>, <<C.r, C.s>>, <<C.g, C.o>>,
      <<C.j, C.a, C.v, C.a>>, <<C.c>>, <<C.h>>, <<C.c, C.p, C.p>>,
      <<C.c, C.c>>, <<C.h, C.p, C.p>>, <<C.j, C.s>>, <<C.m, C.j, C.s>>,
      <<C.c, C.j, C.s>>, <<C.t, C.s>>, <<C.j, C.s, C.x>>, <<C.t, C.s, C.x>>,
      <<C.p, C.y>>, <<C.p, C.y, C.w>>, <<C.m, C.t, C.s>>, <<C.c, C.t, C.s>>,
      <<C.c, C.x, C.x>>, <<C.h, C.h>> }

OtherExtensions == { <<C.t, C.x, C.t>>, <<C.m, C.d, C.d>>, <<C.m>>, <<C.r, C.s, C.s>>,
      <<C.p, C.y, C.c>>, <<C.h, C.x, C.x>> }

\* The same text in capitals, and with a capital first.
Capitals(text) == [n \in 1..Len(text) |-> IF is_lowercase(text[n]) THEN text[n] - 32 ELSE text[n]]
Capitalised(text) == [n \in 1..Len(text) |-> IF n = 1 THEN Capitals(text)[n] ELSE text[n]]

Suffixes ==
    LET written == KnownExtensions \cup OtherExtensions \cup {<<>>}
    IN {<<>>} \cup {<<C.dot>> \o ext : ext \in written}
            \cup {<<C.dot>> \o Capitals(ext) : ext \in written}
            \cup {<<C.dot>> \o Capitalised(ext) : ext \in written}

\* File names with and without an extension, with two, or beginning with a
\* dot, in the current directory or in the directory `a.rs`.
Paths ==
    {dir \o stem \o suffix :
        dir \in {<<>>, <<C.a, C.dot, C.r, C.s, C.slash>>}, stem \in {<<>>, <<C.a>>, <<C.a, C.dot, C.m, C.d>>},
        suffix \in Suffixes} \ {<<>>, <<C.a, C.dot, C.r, C.s, C.slash>>}

InitType ==
    /\ pc = "call"
    /\ \E path \in Paths : args = [path |-> path]
    /\ ret = NoValue
    /\ dict_file = NoValue
    /\ personal_dict_file = NoValue
    /\ dictionary = NoValue
    /\ file = NoValue
    /\ personal_words = NoValue
    /\ ignore_patterns = NoValue

\* parse_file: `let file_type = FileType::from_path(path)`
FromPath ==
    /\ pc = "call"
    /\ ret' = [file_type |-> from_path(args.path)]
    /\ pc' = "typed"
    /\ UNCHANGED <<args, dict_file, personal_dict_file, dictionary, checker_vars>>

\* parse_file: `match file_type`, down to the parser that is called
Dispatch ==
    /\ pc = "typed"
    /\ ret' = [file_type |-> ret.file_type, parser |-> parser_of(ret.file_type)]
    /\ pc' = "dispatched"
    /\ UNCHANGED <<args, dict_file, personal_dict_file, dictionary, checker_vars>>

NextType == FromPath \/ Dispatch

SpecType == InitType /\ [][NextType]_vars

\* The extension of the path in lower case, empty when it has none.
LowerExtension ==
    IF extension(args.path) = NoValue THEN <<>> ELSE to_lowercase(extension(args.path).some)

MarkdownExtensions == { <<C.m, C.d>>, <<C.m, C.d, C.x>>,
      <<C.m, C.a, C.r, C.k, C.d, C.o, C.w, C.n>> }

CStyleExtensions ==
    { <<C.r, C.s>>, <<C.g, C.o>>, <<C.j, C.a, C.v, C.a>>, <<C.c>>, <<C.h>>,
      <<C.c, C.p, C.p>>, <<C.c, C.c>>, <<C.h, C.p, C.p>>, <<C.j, C.s>>,
      <<C.m, C.j, C.s>>, <<C.c, C.j, C.s>>, <<C.t, C.s>>, <<C.j, C.s, C.x>>,
      <<C.t, C.s, C.x>> }

PythonExtensions == { <<C.p, C.y>>, <<C.p, C.y, C.w>> }

\* The extensions the code sends to the C-style strategy besides those.
MoreCStyleExtensions == { <<C.m, C.t, C.s>>, <<C.c, C.t, C.s>>, <<C.c, C.x, C.x>>, <<C.h, C.h>> }

\* The parser a list of C-style extensions gives the path.
ParserBy(c_style) ==
    CASE LowerExtension \in MarkdownExtensions -> "markdown::parse"
      [] LowerExtension \in c_style -> "parse_c_style"
      [] LowerExtension \in PythonExtensions -> "parse_python_style"
      [] OTHER -> "plaintext::parse"

\* C12 as stated: the format depends on the extension only; md, mdx and
\* markdown select Markdown, the fourteen extensions rs .. tsx the C-style
\* strategy, py and pyw the Python-style strategy, every other extension and
\* no extension plain text.
C12_FormatByExtension ==
    pc = "dispatched" => ret.parser = ParserBy(CStyleExtensions)

\* C12, amended: the same with mts, cts, cxx and hh among the C-style
\* extensions, the extension being read without regard to case.
C12_FormatByExtensionOfCode ==
    pc = "dispatched" => ret.parser = ParserBy(CStyleExtensions \cup MoreCStyleExtensions)

C12_Witness ==
    /\ pc = "dispatched"
    /\ args.path = <<C.a, C.dot, C.r, C.s, C.slash, C.a, C.dot, C.m, C.d, C.dot>> \o Capitalised(<<C.c, C.x, C.x>>)
    /\ ret.parser = "parse_c_style"

(***************************************************************************)
(* Specification SpecNew: a SpellChecker built from a configuration, then  *)
(* asked whether it ignores a word                                         *)
(***************************************************************************)

MaxPatterns == 3

ConfigPatterns ==
    {AllCapsPattern, UrlPattern, TstPattern, UnclosedClass, UnclosedGroup, NothingToRepeat}

\* "tst\n" and " Tst \n#tst\n\ntest\n"
PersonalFiles ==
    { NoValue,
      [content |-> tst \o <<C.nl>>],
      [content |-> <<C.sp, C.T, C.s, C.t, C.sp, C.nl, C.hash>> \o tst
                   \o <<C.nl, C.nl>> \o test \o <<C.nl>>] }

InitNew ==
    /\ pc = "call"
    /\ \E patterns \in StringsUpTo(ConfigPatterns, MaxPatterns) :
       \E personal_dictionary \in {NoValue, [path |-> "personal.txt"]} :
       \E word \in {tst, test, <<C.A, C.A>>} :
            args = [config |-> [ignore_patterns |-> patterns,
                                personal_dictionary |-> personal_dictionary],
                    word |-> word]
    /\ ret = NoValue
    /\ dict_file \in {DictionaryOf({tst, test}), [corrupt |-> TRUE]}
    /\ personal_dict_file \in PersonalFiles
    /\ dictionary = NoValue
    /\ file = NoValue
    /\ personal_words = NoValue
    /\ ignore_patterns = NoValue

\* main: `SpellChecker::new(&config)?`
New ==
    /\ pc = "call"
    /\ \E built \in {new(args.config, dict_file, personal_dict_file)} :
          IF built.ok
          THEN /\ dictionary' = built.dictionary
               /\ personal_words' = built.personal_words
               /\ ignore_patterns' = built.ignore_patterns
               /\ ret' = "Ok"
               /\ pc' = "new"
          ELSE /\ ret' = "Err"
               /\ pc' = "new_failed"
               /\ UNCHANGED <<dictionary, personal_words, ignore_patterns>>
    /\ UNCHANGED <<args, dict_file, personal_dict_file, file>>

\* self.should_ignore(word), as check and the fixes call it for a span
ShouldIgnore ==
    /\ pc = "new"
    /\ ret' = should_ignore(ignore_patterns, args.word)
    /\ pc' = "probed"
    /\ UNCHANGED <<args, dict_file, personal_dict_file, dictionary, checker_vars>>

NextNew == New \/ ShouldIgnore

SpecNew == InitNew /\ [][NextNew]_vars

\* The valid patterns of the configuration, in their order.
ValidPatterns == SelectSeq(args.config.ignore_patterns, LAMBDA pattern : regex_new(pattern).ok)

MaxTokens == 2

this == <<C.t, C.h, C.i, C.s>>

\* "This is a tst."
ThisIsATst ==
    <<C.T, C.h, C.i, C.s, C.sp, C.i, C.s, C.sp, C.a, C.sp>> \o tst \o <<C.dot>>

\* "This is a test."
ThisIsATest ==
    <<C.T, C.h, C.i, C.s, C.sp, C.i, C.s, C.sp, C.a, C.sp>> \o test \o <<C.dot>>

\* The pieces the file contents are put together from.
Tokens ==
    { tst, test, <<C.eacute>>, <<C.A, C.A>>, <<C.slash, C.slash, C.sp>>, <<C.sp>> }

\* "tst tst"
TstTst == tst \o <<C.sp>> \o tst

\* "this hi"
ThisHi == this \o <<C.sp, C.h, C.i>>

\* "tst" // hi
LiteralBeforeComment ==
    <<C.dq>> \o tst \o <<C.dq, C.sp, C.slash, C.slash, C.sp, C.h, C.i>>

FileContents ==
    {ConcatAll(ts) : ts \in StringsUpTo(Tokens, MaxTokens)}
    \cup {ThisIsATst, TstTst, ThisHi, LiteralBeforeComment}

Dictionaries ==
    { DictionaryOf({this, is, <<C.a>>, test}), DictionaryOf({tst, test}) }

PersonalWordSets == { {}, {tst} }

IgnorePatternLists ==
    { <<>>, default_ignore_patterns, default_ignore_patterns \o <<TstPattern>> }

Init ==
    /\ pc = "call"
    /\ file \in FileContents
    /\ \E file_type \in {"PlainText", "SourceCode"} :
       \E fix \in BOOLEAN :
       \E max_suggestions \in {0, 1, default_max_suggestions} :
            args = [file_type |-> file_type, content |-> file, fix |-> fix,
                    max_suggestions |-> max_suggestions]
    /\ ret = NoValue
    /\ dict_file = NoValue
    /\ personal_dict_file = NoValue
    /\ dictionary \in Dictionaries
    /\ personal_words \in PersonalWordSets
    /\ ignore_patterns \in IgnorePatternLists

\* main: `checker.check(file_path, &config, ..)` when --fix is not given
Check ==
    /\ pc = "call"
    /\ ~args.fix
    /\ ret' = check(args.file_type, file, dictionary, personal_words, ignore_patterns,
                    args.max_suggestions)
    /\ pc' = "done"
    /\ UNCHANGED <<args, dict_file, personal_dict_file, dictionary, checker_vars>>

\* main: `checker.fix_auto(file_path, &config, ..)` when --fix is given
FixAuto ==
    /\ pc = "call"
    /\ args.fix
    /\ \E fixed \in {fix_auto(args.file_type, file, dictionary, personal_words,
                              ignore_patterns)} :
          /\ ret' = fixed.result
          /\ file' = fixed.file
    /\ pc' = "done"
    /\ UNCHANGED <<args, dict_file, dictionary, personal_words, ignore_patterns>>
    /\ UNCHANGED personal_dict_file

Next == Check \/ FixAuto

Spec == Init /\ [][Next]_vars

\* A SpellError without its context and suggestions.
Located(list) ==
    [n \in 1..Len(list) |->
        [word |-> IF "word" \in DOMAIN list[n] THEN list[n].word ELSE list[n].text,
         line |-> list[n].line, column |-> list[n].column]]

\* C1: in check mode a SpellError is emitted for a span of the tokenizer if
\* and only if its lowercased text is not a personal word, the text is not
\* ignored (it is longer than one character, not all-numeric, and matches no
\* ignore pattern) and its lowercased text is not in the dictionary.
C1_ErrorIffMiss ==
    pc = "done" /\ ~args.fix /\ ~ret.panicked =>
        LET spans == parse_file(args.file_type, args.content).spans
            Flagged(span) ==
                /\ to_lowercase(span.text) \notin personal_words
                /\ Len(span.text) > 1
                /\ ~(\A n \in 1..Len(span.text) : is_numeric(span.text[n]))
                /\ ~(\E n \in 1..Len(ignore_patterns) : is_match(ignore_patterns[n], span.text))
                /\ ~contains(dictionary, to_lowercase(span.text))
        IN Located(ret.errors) = Located(SelectSeq(spans, Flagged))

\* The case of C2: the plain-text file `This is a tst.` is checked against
\* the dictionary {this, is, a, test} with no personal word.
C2_Case ==
    /\ pc = "done"
    /\ ~args.fix
    /\ args.file_type = "PlainText"
    /\ args.content = ThisIsATst
    /\ dictionary = DictionaryOf({this, is, <<C.a>>, test})
    /\ personal_words = {}

\* What C2 says of the result: one error, for `tst`, at line 1, with `test`
\* as its first suggestion, and nothing fixed.
C2_Result ==
    /\ ~ret.panicked
    /\ ret.error_count = 1
    /\ Len(ret.errors) = 1
    /\ ret.errors[1].word = tst
    /\ ret.errors[1].line = 1
    /\ ret.errors[1].suggestions # <<>>
    /\ ret.errors[1].suggestions[1] = test
    /\ ret.fixed_count = 0

\* C2 as stated: checking the plain-text file `This is a tst.` against the
\* dictionary {this, is, a, test}, with no personal word, returns one error,
\* for `tst`, at line 1, with `test` as first suggestion, and fixed_count 0.
C2_ExampleCheck == C2_Case => C2_Result

\* C2, amended: the same, under a configuration with max_suggestions >= 1 and
\* no ignore pattern that matches `tst`.
C2_ExampleCheckConfigured ==
    /\ C2_Case
    /\ args.max_suggestions >= 1
    /\ \A n \in 1..Len(ignore_patterns) : ~is_match(ignore_patterns[n], tst)
    => C2_Result

C2_Witness ==
    /\ C2_Case
    /\ args.max_suggestions = default_max_suggestions
    /\ ignore_patterns = default_ignore_patterns
    /\ C2_Result

\* The misspelled spans of the file as it was before the operation.
Misses ==
    LET Miss(span) == IsMiss(span, dictionary, personal_words, ignore_patterns)
    IN SelectSeq(parse_file(args.file_type, args.content).spans, Miss)

\* The case of C3: auto-fix has run on a file with exactly one misspelled
\* span, whose text occurs once in the file, and for which generate returns a
\* candidate.
C3_Case ==
    /\ pc = "done"
    /\ args.fix
    /\ ~parse_file(args.file_type, args.content).panicked
    /\ Len(Misses) = 1
    /\ Cardinality(Occurrences(args.content, Misses[1].text)) = 1
    /\ LET top == generate(to_lowercase(Misses[1].text), dictionary, 1)
       IN ~top.panicked /\ top.suggestions # <<>>

RECURSIVE ReplaceSpans(_, _, _, _)
\* The content with the first n of the spans, each read at its column,
\* replaced by `c`; the last of them is replaced first.
ReplaceSpans(content, spans, n, c) ==
    IF n = 0 THEN content
    ELSE LET at == spans[n].column
             replaced == SubSeq(content, 1, at - 1) \o c
                         \o SubSeq(content, at + Len(spans[n].text), Len(content))
         IN ReplaceSpans(replaced, spans, n - 1, c)

\* The case of C17: auto-fix has run on a one-line plain-text file of
\* one-byte chars whose misspelled spans all have the same text w, each found
\* at its column, and generate returns a candidate for w.
C17_Case ==
    /\ pc = "done"
    /\ args.fix
    /\ args.file_type = "PlainText"
    /\ ByteLen(args.content) = Len(args.content)
    /\ ~Member(args.content, C.nl)
    /\ ~parse_file(args.file_type, args.content).panicked
    /\ Len(Misses) >= 1
    /\ \A n \in 1..Len(Misses) :
          /\ Misses[n].text = Misses[1].text
          /\ SubSeq(args.content, Misses[n].column,
                    Misses[n].column + Len(Misses[n].text) - 1) = Misses[n].text
    /\ LET top == generate(to_lowercase(Misses[1].text), dictionary, 1)
       IN ~top.panicked /\ top.suggestions # <<>>

\* C17: after auto-fix of a file in which a misspelled word w with top
\* suggestion c occurs as k >= 1 spans, each of those occurrences reads c, no
\* text outside the misspelled spans has changed, and fixed_count is k.
C17_AutoFixEveryOccurrence ==
    C17_Case =>
        LET c == generate(to_lowercase(Misses[1].text), dictionary, 1).suggestions[1]
        IN /\ ~ret.panicked
           /\ ret.fixed_count = Len(Misses)
           /\ file = ReplaceSpans(args.content, Misses, Len(Misses), c)

\* C17 where it does hold: `tst tst` becomes `test test`, fixed_count 2.
C17_TwoOccurrencesFixed ==
    /\ C17_Case
    /\ args.content = TstTst
    /\ Len(Misses) = 2
    /\ file = test \o <<C.sp>> \o test
    /\ ret.fixed_count = 2

\* (line, column) of e1 is not after (line, column) of e2.
NotAfter(e1, e2) ==
    e1.line < e2.line \/ (e1.line = e2.line /\ e1.column <= e2.column)

\* C23: the errors of a CheckResult are in document order, whatever the
\* format of the file: of two errors the earlier one in the list has the
\* (line, column) that is not the larger one, its word does not start after
\* the other's; and error_count is the length of the list.
C23_ErrorsInDocumentOrder ==
    pc = "done" /\ ~args.fix /\ ~ret.panicked =>
        /\ ret.error_count = Len(ret.errors)
        /\ \A n, m \in 1..Len(ret.errors) :
              n < m => NotAfter(ret.errors[n], ret.errors[m])

\* C23 for plain text.
C23_PlainTextErrorsInOrder ==
    pc = "done" /\ ~args.fix /\ ~ret.panicked /\ args.file_type = "PlainText" =>
        /\ ret.error_count = Len(ret.errors)
        /\ \A n, m \in 1..Len(ret.errors) :
              n < m => NotAfter(ret.errors[n], ret.errors[m])

(***************************************************************************)
(* Specification SpecRun: the loop of main over the files of the command   *)
(* line                                                                    *)
(***************************************************************************)

MaxFiles == 3

Missing == [exists |-> FALSE]

OnDisk(content, readable, writable) ==
    [exists |-> TRUE, readable |-> readable, writable |-> writable, content |-> content]

\* A file of the command line: missing, present but not readable, readable
\* but not writable, or readable and writable.
DiskFiles ==
    { Missing, OnDisk(tst, FALSE, FALSE), OnDisk(tst, TRUE, FALSE),
      OnDisk(tst, TRUE, TRUE), OnDisk(test, TRUE, TRUE), OnDisk(TstTst, TRUE, TRUE) }

\* cli.files[k] is the path of the k-th file of the disk.
InitRun ==
    /\ pc = "loop"
    /\ file \in StringsUpTo(DiskFiles, MaxFiles) \ {<<>>}
    /\ \E fix \in BOOLEAN : args = [fix |-> fix, disk |-> file]
    /\ ret = [next |-> 1, total_errors |-> 0, total_fixed |-> 0]
    /\ dict_file = NoValue
    /\ personal_dict_file = NoValue
    /\ dictionary = DictionaryOf({this, is, <<C.a>>, test})
    /\ personal_words = {}
    /\ ignore_patterns = default_ignore_patterns

\* What the loop does with the Result of check or fix_auto: `?` returns the
\* error from main, otherwise the counts are added to the totals.
AfterFile(outcome) ==
    IF outcome.ok /\ ~outcome.result.panicked
    THEN /\ ret' = [next |-> ret.next + 1,
                    total_errors |-> ret.total_errors + outcome.result.error_count,
                    total_fixed |-> ret.total_fixed + outcome.result.fixed_count]
         /\ file' = [file EXCEPT ![ret.next] = [@ EXCEPT !.content = outcome.content]]
         /\ pc' = "loop"
    ELSE /\ pc' = "failed"
         /\ UNCHANGED <<ret, file>>

\* `if !file_path.exists() { eprintln!(..); continue; }`
FileNotFound ==
    /\ pc = "loop"
    /\ ret.next <= Len(file)
    /\ ~file[ret.next].exists
    /\ ret' = [ret EXCEPT !.next = @ + 1]
    /\ UNCHANGED <<pc, args, file, dict_file, dictionary, personal_words, ignore_patterns>>
    /\ UNCHANGED personal_dict_file

\* `checker.check(file_path, ..)?` and the two additions
CheckFile ==
    /\ pc = "loop"
    /\ ret.next <= Len(file)
    /\ file[ret.next].exists
    /\ ~args.fix
    /\ \E outcome \in {check_file(file[ret.next], dictionary, personal_words,
                                   ignore_patterns, default_max_suggestions)} :
          AfterFile(outcome)
    /\ UNCHANGED <<args, dict_file, dictionary, personal_words, ignore_patterns>>
    /\ UNCHANGED personal_dict_file

\* `checker.fix_auto(file_path, ..)?` and the two additions
FixFile ==
    /\ pc = "loop"
    /\ ret.next <= Len(file)
    /\ file[ret.next].exists
    /\ args.fix
    /\ \E outcome \in {fix_auto_file(file[ret.next], dictionary, personal_words,
                                      ignore_patterns)} :
          AfterFile(outcome)
    /\ UNCHANGED <<args, dict_file, dictionary, personal_words, ignore_patterns>>
    /\ UNCHANGED personal_dict_file

\* The end of the loop: the summary is printed.
PrintSummary ==
    /\ pc = "loop"
    /\ ret.next > Len(file)
    /\ pc' = "summary"
    /\ UNCHANGED <<args, ret, dict_file, personal_dict_file, dictionary, checker_vars>>

NextRun == FileNotFound \/ CheckFile \/ FixFile \/ PrintSummary

SpecRun == InitRun /\ [][NextRun]_vars

\* The counts of an outcome: nothing for an I/O error.
CountsFrom(outcome) ==
    IF outcome.ok
    THEN [errors |-> outcome.result.error_count, fixed |-> outcome.result.fixed_count]
    ELSE [errors |-> 0, fixed |-> 0]

\* What the k-th file, as it was at the start, adds to the totals when it is
\* processed alone: nothing when it is missing or fails with an I/O error.
CountsOf(k) ==
    IF ~args.disk[k].exists THEN CountsFrom(Err)
    ELSE IF args.fix
    THEN CountsFrom(fix_auto_file(args.disk[k], dictionary, personal_words, ignore_patterns))
    ELSE CountsFrom(check_file(args.disk[k], dictionary, personal_words, ignore_patterns,
                               default_max_suggestions))

RECURSIVE TotalErrors(_)
TotalErrors(n) == IF n = 0 THEN 0 ELSE TotalErrors(n - 1) + CountsOf(n).errors

RECURSIVE TotalFixed(_)
TotalFixed(n) == IF n = 0 THEN 0 ELSE TotalFixed(n - 1) + CountsOf(n).fixed

\* C13: in a run over several files an I/O failure on one file (missing,
\* unreadable, or unwritable in fix mode) aborts that file only: the run
\* goes on to its summary, and the totals hold the counts of every file that
\* could be processed, those after the failing file included.
C13_IoFailureAbortsOneFile ==
    /\ pc # "failed"
    /\ pc = "summary" =>
          /\ ret.total_errors = TotalErrors(Len(args.disk))
          /\ ret.total_fixed = TotalFixed(Len(args.disk))

\* C13 where it does hold: a missing file is skipped and the file after it
\* is counted.
C13_MissingFileSkipped ==
    /\ pc = "summary"
    /\ ~args.fix
    /\ args.disk = <<Missing, OnDisk(tst, TRUE, TRUE)>>
    /\ ret.total_errors = 1

(***************************************************************************)
(* Specification SpecInteractive: fix_interactive on one file, the user    *)
(* answering the prompts                                                   *)
(***************************************************************************)

MaxMisspellings == 3

hi == <<C.h, C.i>>

RECURSIVE TstTimes(_)
\* "tst", "tst tst", ...
TstTimes(n) == IF n = 1 THEN tst ELSE TstTimes(n - 1) \o <<C.sp>> \o tst

InteractiveContents == {TstTimes(n) : n \in 1..MaxMisspellings} \cup {ThisIsATst}

\* No personal dictionary file, "hi\n", and "hi" with no newline at its end.
InteractivePersonalFiles == {NoValue, [content |-> Append(hi, C.nl)], [content |-> hi]}

\* The lines the user types.
Answers == {"s", "a", "q", "0", "1", "2", ""}

InitInteractive ==
    /\ pc = "loop"
    /\ file \in InteractiveContents
    /\ personal_dict_file \in InteractivePersonalFiles
    /\ \E personal_dictionary \in {NoValue, [path |-> "personal.txt"]} :
            args = [file_type |-> "PlainText",
                    content |-> file,
                    personal_dict_file |-> personal_dict_file,
                    config |-> [personal_dictionary |-> personal_dictionary,
                                max_suggestions |-> default_max_suggestions]]
    /\ dict_file = NoValue
    /\ dictionary = DictionaryOf({this, is, <<C.a>>, test})
    /\ personal_words = {hi}
    /\ ignore_patterns = default_ignore_patterns
    /\ ret = [spans |-> PromptedSpans(args.file_type, args.content, dictionary,
                                      personal_words, ignore_patterns),
              next |-> 1, replacements |-> <<>>, words_to_add |-> <<>>, answers |-> <<>>]

\* The spans the user is asked about.
Prompted == ret.spans

\* The prompt for the span at hand, answered with `input`.
PromptAnswered(input) ==
    print_interactive_prompt(
        Prompted[ret.next].text,
        generate(to_lowercase(Prompted[ret.next].text), dictionary,
                 args.config.max_suggestions).suggestions,
        input)

\* One turn of the loop over the spans: the user answers skip, add, or a
\* number.
Answer ==
    /\ pc = "loop"
    /\ ret.next <= Len(Prompted)
    /\ \E input \in Answers :
       \E prompt \in {PromptAnswered(input)} :
          /\ ~prompt.exit
          /\ \E lists \in {AfterChoice(Prompted[ret.next], prompt.choice,
                                        ret.replacements, ret.words_to_add)} :
                ret' = [spans |-> ret.spans,
                        next |-> ret.next + 1,
                        replacements |-> lists.replacements,
                        words_to_add |-> lists.words_to_add,
                        answers |-> Append(ret.answers, input)]
    /\ UNCHANGED <<pc, args, dict_file, personal_dict_file, dictionary, checker_vars>>

\* The user answers quit: std::process::exit(0) inside the prompt.
Quit ==
    /\ pc = "loop"
    /\ ret.next <= Len(Prompted)
    /\ \E input \in Answers :
          /\ PromptAnswered(input).exit
          /\ ret' = [ret EXCEPT !.answers = Append(@, input)]
    /\ pc' = "exited"
    /\ UNCHANGED <<args, dict_file, personal_dict_file, dictionary, checker_vars>>

\* After the last span: the replacements are applied, the file is written
\* if something was fixed, the personal dictionary file is rewritten.
Flush ==
    /\ pc = "loop"
    /\ ret.next > Len(Prompted)
    /\ \E applied \in {ApplyReplacements(ret.replacements, 1, args.content, 0)} :
          /\ file' = IF applied.fixed_count > 0 THEN applied.new_content ELSE file
          /\ ret' = [error_count |-> 0, fixed_count |-> applied.fixed_count,
                     errors |-> <<>>, answers |-> ret.answers]
    /\ personal_dict_file' = PersonalDictWritten(args.config, personal_dict_file,
                                                 ret.words_to_add)
    /\ pc' = "done"
    /\ UNCHANGED <<args, dict_file, dictionary, personal_words, ignore_patterns>>

NextInteractive == Answer \/ Quit \/ Flush

SpecInteractive == InitInteractive /\ [][NextInteractive]_vars

\* C15: when the user answers "quit" at a prompt of an interactive fix the
\* process terminates at once and nothing gathered for the file is flushed:
\* the file and the personal dictionary file are what they were before
\* fix_interactive started, also when replacements or "add to dictionary"
\* had been chosen for earlier words.
C15_QuitFlushesNothing ==
    (pc = "exited" \/ \E n \in 1..Len(ret.answers) : ret.answers[n] = "q") =>
        /\ pc = "exited"
        /\ ret.answers[Len(ret.answers)] = "q"
        /\ file = args.content
        /\ personal_dict_file = args.personal_dict_file

C15_Witness ==
    /\ pc = "exited"
    /\ ret.replacements # <<>>
    /\ ret.words_to_add # <<>>
    /\ args.config.personal_dictionary # NoValue
    /\ file = args.content
    /\ personal_dict_file = args.personal_dict_file

\* The words a personal dictionary file holds when it is loaded.
Reloaded(on_disk) == IF on_disk = NoValue THEN {} ELSE PersonalWordsOf(on_disk.content)

\* The lowercased words of the spans the user answered "a" for.
WordsAdded ==
    LET spans == PromptedSpans(args.file_type, args.content, dictionary, personal_words,
                               ignore_patterns)
    IN {to_lowercase(spans[n].text) : n \in {m \in 1..Len(ret.answers) : ret.answers[m] = "a"}}

\* C26: after an interactive fix in which the user chose "add to dictionary"
\* for a word, the personal dictionary file the configuration names, loaded
\* again, holds every word it held before and the lowercased word, whatever
\* the file held before, a last line without a newline included.
C26_AddedWordsReload ==
    pc = "done" /\ args.config.personal_dictionary # NoValue /\ WordsAdded # {} =>
        /\ Reloaded(args.personal_dict_file) \subseteq Reloaded(personal_dict_file)
        /\ WordsAdded \subseteq Reloaded(personal_dict_file)

\* C26 for the files that end with a newline, and for no file.
C26_AddedWordsReloadAfterNewline ==
    /\ pc = "done"
    /\ args.config.personal_dictionary # NoValue
    /\ WordsAdded # {}
    /\ args.personal_dict_file # [content |-> hi]
    => /\ Reloaded(args.personal_dict_file) \subseteq Reloaded(personal_dict_file)
       /\ WordsAdded \subseteq Reloaded(personal_dict_file)

(***************************************************************************)
(* Specification SpecFrame: a file checked, fixed automatically or fixed   *)
(* interactively                                                           *)
(***************************************************************************)

InitFrame == Init \/ InitInteractive

NextFrame == Next \/ NextInteractive

SpecFrame == InitFrame /\ [][NextFrame]_vars

\* C30: check never writes the checked file; auto-fix and interactive fix
\* write it only when fixed_count > 0, so the file is left as it was when no
\* replacement is applied; and no check or fix changes the personal word
\* set, the ignore patterns or the dictionary held in memory.
C30_WritesOnlyFixes ==
    [][ /\ UNCHANGED <<personal_words, ignore_patterns, dictionary>>
        /\ (pc = "call" /\ ~args.fix => file' = file)
        /\ (file' # file => pc' = "done" /\ ret'.fixed_count > 0) ]_vars

\* An auto-fix that found a misspelling and no suggestion for it: nothing is
\* fixed and the file is what it was.
C30_Witness ==
    /\ pc = "done"
    /\ "fix" \in DOMAIN args
    /\ args.fix
    /\ ~ret.panicked
    /\ ret.fixed_count = 0
    /\ \E n \in 1..Len(parse_file(args.file_type, args.content).spans) :
          IsMiss(parse_file(args.file_type, args.content).spans[n], dictionary,
                 personal_words, ignore_patterns)
    /\ file = args.content

=============================================================================
